---------------------------- MODULE Spec2Model ----------------------------
(***************************************************************************)
(* rustari2600: the oscillator-driven video generator (Tia), the 6507 CPU  *)
(* (Cpu), the timer/RAM peripheral (Pia), the cartridge and the address-   *)
(* decoded bus that owns them.  One oscillator tick (Tia::cycle) is one    *)
(* step of the machine.                                                    *)
(*                                                                         *)
(* Conventions.                                                            *)
(*  - Option<T> is a sequence of length at most one: None is << >> and     *)
(*    Some(x) is <<x>>.                                                    *)
(*  - Zero-initialised arrays (RAM, stack, framebuffer, ROM padding) are   *)
(*    kept as functions on the cells that were written; a cell outside the *)
(*    domain holds its initial 0 (Cell).                                   *)
(*  - A panic (panic!, unimplemented!, todo!, an overflow check of a build *)
(*    with overflow checks) ends the process: the operators raise the      *)
(*    fatal flag of the machine they return and the step keeps the state   *)
(*    of the last completed tick.                                          *)
(*  - log is an observer: the calls, decodes and bus accesses of the last  *)
(*    tick, in program order.                                              *)
(*  - The operators thread one machine record b (the Bus aggregate and the *)
(*    fatal flag and log) through a tick.  Three scratch fields carry what *)
(*    the source keeps in locals and return values: data (the byte the     *)
(*    last bus read returned), addr (the Option<u16> effective_addr and    *)
(*    read_modify_write return) and proc (the copy of the in-flight        *)
(*    InstructionProcedure that Cpu::cycle steps).                         *)
(*  - InfCell (util.rs) hands every caller a reference to the one Bus, so   *)
(*    a write the CPU makes in Cpu::cycle is what Tia::cycle reads next:   *)
(*    the nested calls are sequential updates of the one machine record.   *)
(*  - overflow_checks is the build: with it an integer overflow panics,    *)
(*    without it the value wraps.                                          *)
(*  - main is where fn main is: in its loop ("loop"), returned because the *)
(*    window was closed or Escape was down ("returned"), or gone with a    *)
(*    panic ("panicked").                                                  *)
(***************************************************************************)
EXTENDS Integers, Sequences, FiniteSets, TLC

VARIABLES tia, cpu, pia, cart, fatal, log, overflow_checks, obs, main

vars == <<tia, cpu, pia, cart, fatal, log, overflow_checks, obs, main>>

----------------------------------------------------------------------------
(* Option, arrays, bytes                                                   *)

None == << >>

Some(x) == <<x>>

Cell(arr, i) == IF i \in DOMAIN arr THEN arr[i] ELSE 0

Store(arr, i, v) == [j \in (DOMAIN arr) \cup {i} |-> IF j = i THEN v ELSE arr[j]]

RECURSIVE BitAnd(_, _)
BitAnd(a, b) ==
  IF a = 0 \/ b = 0 THEN 0
  ELSE (IF a % 2 = 1 /\ b % 2 = 1 THEN 1 ELSE 0) + 2 * BitAnd(a \div 2, b \div 2)

RECURSIVE BitXor(_, _)
BitXor(a, b) ==
  IF a = 0 THEN b
  ELSE IF b = 0 THEN a
  ELSE (IF a % 2 = b % 2 THEN 0 ELSE 1) + 2 * BitXor(a \div 2, b \div 2)

BitOr(a, b) == a + b - BitAnd(a, b)

\* Variant of addr_concat: the bytes in the other order.
addr_concat_swapped(high, low) == low * 256 + high

addr_concat(high, low) == high * 256 + low

----------------------------------------------------------------------------
(* StatusReg                                                               *)

Negative == 128

Overflow == 64

Unused == 32

Break == 16

Decimal == 8

InterruptDisable == 4

Zero == 2

Carry == 1

StatusDefault == BitOr(Unused, Break)

contains(status, flag) == BitAnd(status, flag) = flag

set(status, flag, value) ==
  IF value THEN BitOr(status, flag) ELSE status - BitAnd(status, flag)

----------------------------------------------------------------------------
(* The panic of a step, the log, and the overflow check of the build      *)

Panic(b) == [b EXCEPT !.fatal = TRUE]

Logged(b, ev, addr, val, owner) ==
  [b EXCEPT !.log = Append(@, [ev |-> ev, addr |-> addr, val |-> val, owner |-> owner])]

Data(b, v) == [b EXCEPT !.data = v]

\* A u16 sum: a build with overflow checks panics past 0xFFFF, any other wraps.
CheckU16(b, sum) == IF sum > 65535 /\ overflow_checks THEN Panic(b) ELSE b

----------------------------------------------------------------------------
(* impl BusAccessable for Tia                                              *)

TiaWrite(b, addr, data) ==
  CASE addr = 0 ->
         LET past == b.tia.vsync
             now  == BitAnd(data, 2) # 0
         IN  [b EXCEPT !.tia.vsync = now,
                       !.tia.vsync_trigger = IF ~past /\ now THEN TRUE ELSE @]
    [] addr = 1 -> [b EXCEPT !.tia.vblank = (BitAnd(data, 194) # 0)]
    [] addr = 2 -> [b EXCEPT !.tia.wsync = TRUE]
    [] addr = 3 -> Panic(b)
    [] addr = 8 -> [b EXCEPT !.tia.colupf = BitAnd(data, 254)]
    [] addr = 9 -> [b EXCEPT !.tia.colubk = BitAnd(data, 254)]
    [] addr = 10 -> [b EXCEPT !.tia.ctrlpf = BitAnd(data, 55)]
    [] addr = 13 -> [b EXCEPT !.tia.pf0 = BitAnd(data, 240)]
    [] addr = 14 -> [b EXCEPT !.tia.pf1 = data]
    [] addr = 15 -> [b EXCEPT !.tia.pf2 = data]
    [] OTHER -> b

TiaRead(b, addr) ==
  CASE addr \in {48, 49, 56, 57, 58, 59} -> Panic(Data(b, 0))
    [] addr \in 50..55 -> Data(b, 0)
    [] addr \in {60, 61} -> Data(b, 128)
    [] OTHER -> Data(b, 0)

----------------------------------------------------------------------------
(* Pia: setup_intim and impl BusAccessable for Pia                         *)

\* Variant of setup_intim: the write does not arm the timer.
setup_intim_unarmed(b, intim, interval) ==
  [b EXCEPT !.pia.intim = intim,
            !.pia.intim_interval = interval]

setup_intim(b, intim, interval) ==
  [b EXCEPT !.pia.intim = intim,
            !.pia.intim_interval = interval,
            !.pia.intim_trigger = TRUE]

PiaWrite(b, addr, data) ==
  CASE addr \in 128..255 -> [b EXCEPT !.pia.ram = Store(@, BitAnd(addr, 127), data)]
    [] addr = 660 -> setup_intim(b, data, 1)
    [] addr = 661 -> setup_intim(b, data, 8)
    [] addr = 662 -> setup_intim(b, data, 64)
    [] addr = 663 -> setup_intim(b, data, 1024)
    [] OTHER -> Panic(b)

PiaRead(b, addr) ==
  CASE addr \in 128..255 -> Data(b, Cell(b.pia.ram, BitAnd(addr, 127)))
    [] addr = 640 -> Data(b, 255)
    [] addr = 642 -> Data(b, 63)
    [] addr = 644 -> Data([b EXCEPT !.pia.intim_interval_active = TRUE], b.pia.intim)
    [] OTHER -> Panic(Data(b, 0))

----------------------------------------------------------------------------
(* impl BusAccessable for Cpu: the stack page                              *)

CpuWrite(b, addr, data) ==
  IF addr \in 256..511
    THEN [b EXCEPT !.cpu.stack = Store(@, BitAnd(addr, 255), data)]
    ELSE Panic(b)

CpuRead(b, addr) ==
  IF addr \in 256..511
    THEN Data(b, Cell(b.cpu.stack, BitAnd(addr, 255)))
    ELSE Panic(Data(b, 0))

----------------------------------------------------------------------------
(* impl BusAccessable for Cartridge                                        *)

CartWrite(b, addr, data) == Panic(b)

CartRead(b, addr) == Data(b, Cell(b.cart.rom, BitAnd(addr, 4095)))

----------------------------------------------------------------------------
(* impl BusAccessable for Bus: the address decoder.  The owner an access   *)
(* is handed to is written to the log.  Nothing runs after a panic.        *)

\* Variant of WriteOwner: the RAM arm runs on through the stack page.
WriteOwner_wide_ram(addr) ==
  CASE addr \in 0..44 -> "tia"
    [] addr \in 128..511 \/ addr \in 640..663 -> "pia"
    [] addr \in 61440..65535 -> "cart"
    [] OTHER -> "none"

WriteOwner(addr) ==
  CASE addr \in 0..44 -> "tia"
    [] addr \in 128..255 \/ addr \in 640..663 -> "pia"
    [] addr \in 256..511 -> "cpu"
    [] addr \in 61440..65535 -> "cart"
    [] OTHER -> "none"

ReadOwner(addr) ==
  CASE addr \in 0..13 \/ addr \in 48..61 -> "tia"
    [] addr \in 128..255 \/ addr \in 640..663 -> "pia"
    [] addr \in 256..511 -> "cpu"
    [] addr \in 61440..65535 -> "cart"
    [] OTHER -> "none"

\* Variant of WriteTo: a write nobody owns is dropped.
WriteTo_ignore(owner, b, addr, data) ==
  CASE owner = "tia" -> TiaWrite(b, addr, data)
    [] owner = "pia" -> PiaWrite(b, addr, data)
    [] owner = "cpu" -> CpuWrite(b, addr, data)
    [] owner = "cart" -> CartWrite(b, addr, data)
    [] OTHER -> b

WriteTo(owner, b, addr, data) ==
  CASE owner = "tia" -> TiaWrite(b, addr, data)
    [] owner = "pia" -> PiaWrite(b, addr, data)
    [] owner = "cpu" -> CpuWrite(b, addr, data)
    [] owner = "cart" -> CartWrite(b, addr, data)
    [] OTHER -> Panic(b)

BusWrite(b, addr, data) ==
  IF b.fatal THEN b
  ELSE WriteTo(WriteOwner(addr), Logged(b, "write", addr, data, WriteOwner(addr)),
               addr, data)

\* Variant of ReadFrom: a RAM read clears the byte it returns.
ReadFrom_clearing(owner, b, addr) ==
  CASE owner = "tia" -> TiaRead(b, addr)
    [] owner = "pia" -> [PiaRead(b, addr) EXCEPT !.pia.ram = Store(@, BitAnd(addr, 127), 0)]
    [] owner = "cpu" -> CpuRead(b, addr)
    [] owner = "cart" -> [CartRead(b, addr) EXCEPT !.cart.rom = Store(@, BitAnd(addr, 4095), 0)]
    [] OTHER -> Panic(Data(b, 0))

ReadFrom(owner, b, addr) ==
  CASE owner = "tia" -> TiaRead(b, addr)
    [] owner = "pia" -> PiaRead(b, addr)
    [] owner = "cpu" -> CpuRead(b, addr)
    [] owner = "cart" -> CartRead(b, addr)
    [] OTHER -> Panic(Data(b, 0))

LoggedRead(b, addr, owner) == Logged(b, "read", addr, b.data, owner)

BusRead(b, addr) ==
  IF b.fatal THEN b
  ELSE LoggedRead(ReadFrom(ReadOwner(addr), b, addr), addr, ReadOwner(addr))

----------------------------------------------------------------------------
(* Cpu: fetch, stack_push, and the helpers shared by the step functions    *)

InstructionProcedure_new(step_func, addr_mode) ==
  [done |-> FALSE, func |-> step_func, mode |-> addr_mode, cycle |-> 1,
   tmp0 |-> 0, tmp1 |-> 0, tmp_addr |-> 0]

\* self.pc += 1
IncPc(b) == [CheckU16(b, b.cpu.pc + 1) EXCEPT !.cpu.pc = (b.cpu.pc + 1) % 65536]

\* let fetch = bus.read(self.pc); self.pc += 1; fetch
fetch(b) == IncPc(BusRead(b, b.cpu.pc))

\* Variant of stack_push: the stack pointer is decremented before the write.
stack_push_predecrement(b, data) ==
  BusWrite([b EXCEPT !.cpu.sp = (@ + 255) % 256], 256 + ((b.cpu.sp + 255) % 256), data)

\* Variant of stack_push: the stack pointer stops at 0 instead of wrapping.
stack_push_saturating(b, data) ==
  [BusWrite(b, 256 + b.cpu.sp, data) EXCEPT !.cpu.sp = IF @ = 0 THEN 0 ELSE @ - 1]

\* bus.write(0x100 + self.sp.0 as u16, data); self.sp -= Wrapping(1)
stack_push(b, data) ==
  [BusWrite(b, 256 + b.cpu.sp, data) EXCEPT !.cpu.sp = (@ + 255) % 256]

\* Variant of SetZN: the status byte is rebuilt from the two flags.
SetZN_rebuilt(status, v) == set(set(0, Zero, v = 0), Negative, BitAnd(v, 128) > 0)

\* status.set(Zero, v == 0); status.set(Negative, v & 0x80 > 0)
SetZN(status, v) == set(set(status, Zero, v = 0), Negative, BitAnd(v, 128) > 0)

Tmp0FromData(b) == [b EXCEPT !.proc.tmp0 = b.data]

Tmp1FromData(b) == [b EXCEPT !.proc.tmp1 = b.data]

\* Variant of Done: the completion flag is not raised.
Done_not_reported(b) == b

Done(b) == [b EXCEPT !.proc.done = TRUE]

PrefetchFromData(b) == [b EXCEPT !.cpu.prefetch = Some(b.data)]

\* cpu.prefetch = Some(cpu.fetch(bus)); procedure.done = true
Finish(b) == Done(PrefetchFromData(fetch(b)))

NoAddr(b) == [b EXCEPT !.addr = None]

WithAddr(b, a) == [b EXCEPT !.addr = Some(a)]

\* Variant of effective_addr: an addressing mode without an arm yields None.
effective_addr_lenient(b) ==
  CASE b.proc.mode = "Immediate" ->
         IF b.proc.cycle = 2 THEN WithAddr(IncPc(b), b.cpu.pc) ELSE NoAddr(b)
    [] b.proc.mode = "Zero" ->
         CASE b.proc.cycle = 2 -> NoAddr(Tmp0FromData(fetch(b)))
           [] b.proc.cycle = 3 -> WithAddr(b, addr_concat(0, b.proc.tmp0))
           [] OTHER -> NoAddr(b)
    [] b.proc.mode = "Absolute" ->
         CASE b.proc.cycle = 2 -> NoAddr(Tmp0FromData(fetch(b)))
           [] b.proc.cycle = 3 -> NoAddr(Tmp1FromData(fetch(b)))
           [] b.proc.cycle = 4 -> WithAddr(b, addr_concat(b.proc.tmp1, b.proc.tmp0))
           [] OTHER -> NoAddr(b)
    [] b.proc.mode \in {"ZeroX", "ZeroY"} ->
         CASE b.proc.cycle = 2 -> NoAddr(Tmp0FromData(fetch(b)))
           [] b.proc.cycle = 4 ->
                IF b.proc.mode = "ZeroX"
                  THEN WithAddr(b, BitAnd(b.proc.tmp0 + b.cpu.x, 255))
                  ELSE WithAddr(b, BitAnd(b.proc.tmp0 + b.cpu.y, 255))
           [] OTHER -> NoAddr(b)
    [] OTHER -> NoAddr(b)

\* Variant of effective_addr: the indexed zero-page address carries into page 1.
effective_addr_page_carry(b) ==
  CASE b.proc.mode = "Immediate" ->
         IF b.proc.cycle = 2 THEN WithAddr(IncPc(b), b.cpu.pc) ELSE NoAddr(b)
    [] b.proc.mode = "Zero" ->
         CASE b.proc.cycle = 2 -> NoAddr(Tmp0FromData(fetch(b)))
           [] b.proc.cycle = 3 -> WithAddr(b, addr_concat(0, b.proc.tmp0))
           [] OTHER -> NoAddr(b)
    [] b.proc.mode = "Absolute" ->
         CASE b.proc.cycle = 2 -> NoAddr(Tmp0FromData(fetch(b)))
           [] b.proc.cycle = 3 -> NoAddr(Tmp1FromData(fetch(b)))
           [] b.proc.cycle = 4 -> WithAddr(b, addr_concat(b.proc.tmp1, b.proc.tmp0))
           [] OTHER -> NoAddr(b)
    [] b.proc.mode \in {"ZeroX", "ZeroY"} ->
         CASE b.proc.cycle = 2 -> NoAddr(Tmp0FromData(fetch(b)))
           [] b.proc.cycle = 4 ->
                IF b.proc.mode = "ZeroX"
                  THEN WithAddr(b, b.proc.tmp0 + b.cpu.x)
                  ELSE WithAddr(b, b.proc.tmp0 + b.cpu.y)
           [] OTHER -> NoAddr(b)
    [] OTHER -> Panic(NoAddr(b))

effective_addr(b) ==
  CASE b.proc.mode = "Immediate" ->
         IF b.proc.cycle = 2 THEN WithAddr(IncPc(b), b.cpu.pc) ELSE NoAddr(b)
    [] b.proc.mode = "Zero" ->
         CASE b.proc.cycle = 2 -> NoAddr(Tmp0FromData(fetch(b)))
           [] b.proc.cycle = 3 -> WithAddr(b, addr_concat(0, b.proc.tmp0))
           [] OTHER -> NoAddr(b)
    [] b.proc.mode = "Absolute" ->
         CASE b.proc.cycle = 2 -> NoAddr(Tmp0FromData(fetch(b)))
           [] b.proc.cycle = 3 -> NoAddr(Tmp1FromData(fetch(b)))
           [] b.proc.cycle = 4 -> WithAddr(b, addr_concat(b.proc.tmp1, b.proc.tmp0))
           [] OTHER -> NoAddr(b)
    [] b.proc.mode \in {"ZeroX", "ZeroY"} ->
         CASE b.proc.cycle = 2 -> NoAddr(Tmp0FromData(fetch(b)))
           [] b.proc.cycle = 4 ->
                IF b.proc.mode = "ZeroX"
                  THEN WithAddr(b, BitAnd(b.proc.tmp0 + b.cpu.x, 255))
                  ELSE WithAddr(b, BitAnd(b.proc.tmp0 + b.cpu.y, 255))
           [] OTHER -> NoAddr(b)
    [] OTHER -> Panic(NoAddr(b))

\* procedure.tmp_addr = a; procedure.tmp0 = bus.read(a)
ReadOperandAt(b, a) == Tmp0FromData(BusRead([b EXCEPT !.proc.tmp_addr = a], a))

ZeroAddrFromData(b) == [b EXCEPT !.proc.tmp_addr = addr_concat(0, b.data)]

read_modify_write(b) ==
  CASE b.proc.mode = "Zero" ->
         CASE b.proc.cycle = 2 -> NoAddr(ZeroAddrFromData(fetch(b)))
           [] b.proc.cycle = 3 -> NoAddr(ReadOperandAt(b, b.proc.tmp_addr))
           [] b.proc.cycle = 4 -> NoAddr(BusWrite(b, b.proc.tmp_addr, b.proc.tmp0))
           [] b.proc.cycle = 5 -> WithAddr(b, b.proc.tmp_addr)
           [] OTHER -> NoAddr(b)
    [] b.proc.mode = "Absolute" ->
         CASE b.proc.cycle = 2 -> NoAddr(Tmp0FromData(fetch(b)))
           [] b.proc.cycle = 3 -> NoAddr(Tmp1FromData(fetch(b)))
           [] b.proc.cycle = 4 ->
                NoAddr(ReadOperandAt(b, addr_concat(b.proc.tmp1, b.proc.tmp0)))
           [] b.proc.cycle = 5 -> NoAddr(BusWrite(b, b.proc.tmp_addr, b.proc.tmp0))
           [] b.proc.cycle = 6 -> WithAddr(b, b.proc.tmp_addr)
           [] OTHER -> NoAddr(b)
    [] b.proc.mode = "ZeroX" ->
         CASE b.proc.cycle = 2 -> NoAddr(ZeroAddrFromData(Tmp0FromData(fetch(b))))
           [] b.proc.cycle = 3 -> NoAddr(BusRead(b, b.proc.tmp_addr))
           [] b.proc.cycle = 4 ->
                NoAddr(ReadOperandAt(b, BitAnd(b.proc.tmp0 + b.cpu.x, 255)))
           [] b.proc.cycle = 5 -> NoAddr(BusWrite(b, b.proc.tmp_addr, b.proc.tmp0))
           [] b.proc.cycle = 6 -> WithAddr(b, b.proc.tmp_addr)
           [] OTHER -> NoAddr(b)
    [] b.proc.mode = "AbsoluteX" ->
         CASE b.proc.cycle = 2 -> NoAddr(Tmp0FromData(fetch(b)))
           [] b.proc.cycle = 3 -> NoAddr(Tmp1FromData(fetch(b)))
           [] b.proc.cycle = 4 ->
                LET sum == addr_concat(b.proc.tmp1, b.proc.tmp0) + b.cpu.x
                IN  NoAddr(BusRead([CheckU16(b, sum) EXCEPT !.proc.tmp_addr = sum % 65536],
                                   sum % 65536))
           [] b.proc.cycle = 5 -> NoAddr(Tmp0FromData(BusRead(b, b.proc.tmp_addr)))
           [] b.proc.cycle = 6 -> WithAddr(b, b.proc.tmp_addr)
           [] OTHER -> NoAddr(b)
    [] OTHER -> Panic(NoAddr(b))

----------------------------------------------------------------------------
(* The step functions of the instruction catalogue.  Each steps the        *)
(* in-flight procedure b.proc on the machine b.                            *)

\* Variant of ShiftVal: the rotates shift a 0 in.
ShiftVal_zero_in(op, v, c) ==
  CASE op \in {"asl", "rol"} -> [val |-> (v * 2) % 256, carry |-> BitAnd(v, 128) # 0]
    [] op \in {"lsr", "ror"} -> [val |-> v \div 2, carry |-> BitAnd(v, 1) # 0]

\* The value and the bit shifted out of asl, lsr, rol, ror on v with carry-in c.
ShiftVal(op, v, c) ==
  CASE op = "asl" -> [val |-> (v * 2) % 256, carry |-> BitAnd(v, 128) # 0]
    [] op = "lsr" -> [val |-> v \div 2, carry |-> BitAnd(v, 1) # 0]
    [] op = "rol" -> [val |-> BitOr(BitAnd((v * 2) % 256, 254), c),
                      carry |-> BitAnd(v, 128) # 0]
    [] op = "ror" -> [val |-> BitOr((c * 128) % 256, BitAnd(v \div 2, 127)),
                      carry |-> BitAnd(v, 1) # 0]

CarryIn(b) == IF contains(b.cpu.status, Carry) THEN 1 ELSE 0

\* The Accumulator arm, cycle 2, before the prefetch.
ShiftAcc(op, b) ==
  [b EXCEPT !.cpu.status = SetZN(set(@, Carry, ShiftVal(op, b.cpu.acc, CarryIn(b)).carry),
                                 ShiftVal(op, b.cpu.acc, CarryIn(b)).val),
            !.cpu.acc = ShiftVal(op, b.cpu.acc, CarryIn(b)).val]

\* The memory arm, before the write back.
ShiftTmp(op, b) ==
  [b EXCEPT !.cpu.status = SetZN(set(@, Carry, ShiftVal(op, b.proc.tmp0, CarryIn(b)).carry),
                                 ShiftVal(op, b.proc.tmp0, CarryIn(b)).val),
            !.proc.tmp0 = ShiftVal(op, b.proc.tmp0, CarryIn(b)).val]

\* bus.write(addr, procedure.tmp0); procedure.done = true
WriteBack(b) == Done(BusWrite(b, b.addr[1], b.proc.tmp0))

ShiftMem(op, b) == IF b.addr # None THEN WriteBack(ShiftTmp(op, b)) ELSE b

ShiftOp(op, b) ==
  IF b.proc.mode = "Accumulator"
    THEN IF b.proc.cycle = 2 THEN Finish(ShiftAcc(op, b)) ELSE b
    ELSE ShiftMem(op, read_modify_write(b))

asl(b) == ShiftOp("asl", b)

lsr(b) == ShiftOp("lsr", b)

rol(b) == ShiftOp("rol", b)

ror(b) == ShiftOp("ror", b)

\* Variant of BranchSum: the displacement is not sign-extended.
BranchSum_unsigned(b) ==
  (IF b.cpu.pc >= 32768 THEN b.cpu.pc - 65536 ELSE b.cpu.pc) + b.proc.tmp0

\* cpu.pc as i16 + tmp0 as i8 as i16: the i16 sum, which a build with overflow
\* checks refuses outside -32768..32767
BranchSum(b) ==
  (IF b.cpu.pc >= 32768 THEN b.cpu.pc - 65536 ELSE b.cpu.pc)
    + (IF b.proc.tmp0 >= 128 THEN b.proc.tmp0 - 256 ELSE b.proc.tmp0)

BranchTarget(b) ==
  [(IF (BranchSum(b) > 32767 \/ BranchSum(b) < -32768) /\ overflow_checks
      THEN Panic(b) ELSE b)
     EXCEPT !.proc.tmp_addr = (BranchSum(b) + 65536) % 65536]

BranchOperand(b, to_branch) == IF ~to_branch THEN Finish(b) ELSE b

\* Variant of BranchPage: a branch to another page completes at once too.
BranchPage_no_penalty(b) == Finish([b EXCEPT !.cpu.pc = b.proc.tmp_addr])

BranchPage(b) ==
  IF BitAnd(b.cpu.pc, 65280) = BitAnd(b.proc.tmp_addr, 65280)
    THEN Finish([b EXCEPT !.cpu.pc = b.proc.tmp_addr])
    ELSE b

branch(b, to_branch) ==
  CASE b.proc.cycle = 2 -> BranchOperand(Tmp0FromData(fetch(b)), to_branch)
    [] b.proc.cycle = 3 -> BranchPage(BranchTarget(b))
    [] b.proc.cycle = 4 -> Finish([b EXCEPT !.cpu.pc = b.proc.tmp_addr])
    [] OTHER -> b

bcc(b) == branch(b, ~contains(b.cpu.status, Carry))

bcs(b) == branch(b, contains(b.cpu.status, Carry))

beq(b) == branch(b, contains(b.cpu.status, Zero))

bmi(b) == branch(b, contains(b.cpu.status, Negative))

bne(b) == branch(b, ~contains(b.cpu.status, Zero))

bpl(b) == branch(b, ~contains(b.cpu.status, Negative))

bvc(b) == branch(b, ~contains(b.cpu.status, Overflow))

bvs(b) == branch(b, contains(b.cpu.status, Overflow))

\* The register instructions: at cycle 2 apply the change (b1), prefetch, done.
OneCycle(b, b1) == IF b.proc.cycle = 2 THEN Finish(b1) ELSE b

cld(b) == OneCycle(b, [b EXCEPT !.cpu.status = set(@, Decimal, FALSE)])

sec(b) == OneCycle(b, [b EXCEPT !.cpu.status = set(@, Carry, TRUE)])

sed(b) == OneCycle(b, [b EXCEPT !.cpu.status = set(@, Decimal, TRUE)])

sei(b) == OneCycle(b, [b EXCEPT !.cpu.status = set(@, InterruptDisable, TRUE)])

\* reg = v, then Zero and Negative from v
SetReg(b, reg, v) == [b EXCEPT !.cpu[reg] = v, !.cpu.status = SetZN(@, v)]

dex(b) == OneCycle(b, SetReg(b, "x", (b.cpu.x + 255) % 256))

dey(b) == OneCycle(b, SetReg(b, "y", (b.cpu.y + 255) % 256))

inx(b) == OneCycle(b, SetReg(b, "x", (b.cpu.x + 1) % 256))

iny(b) == OneCycle(b, SetReg(b, "y", (b.cpu.y + 1) % 256))

tax(b) == OneCycle(b, SetReg(b, "x", b.cpu.acc))

tay(b) == OneCycle(b, SetReg(b, "y", b.cpu.acc))

tsx(b) == OneCycle(b, SetReg(b, "x", b.cpu.sp))

txa(b) == OneCycle(b, SetReg(b, "acc", b.cpu.x))

tya(b) == OneCycle(b, SetReg(b, "acc", b.cpu.y))

txs(b) == OneCycle(b, [b EXCEPT !.cpu.sp = b.cpu.x])

EorData(b) == SetReg(b, "acc", BitXor(b.cpu.acc, b.data))

EorOperand(b) == IF b.addr # None THEN Finish(EorData(BusRead(b, b.addr[1]))) ELSE b

eor(b) == EorOperand(effective_addr(b))

\* lda, ldx, ldy: reg is the register loaded.
LoadData(reg, b) == SetReg(b, reg, b.data)

LoadOperand(reg, b) ==
  IF b.addr # None THEN Finish(LoadData(reg, BusRead(b, b.addr[1]))) ELSE b

lda(b) == LoadOperand("acc", effective_addr(b))

ldx(b) == LoadOperand("x", effective_addr(b))

ldy(b) == LoadOperand("y", effective_addr(b))

\* Variant of StoreOperand: the store prefetches the next opcode as a load does.
StoreOperand_prefetching(reg, b) ==
  IF b.addr # None THEN Finish(BusWrite(b, b.addr[1], b.cpu[reg])) ELSE b

\* sta, stx, sty: reg is the register stored; no prefetch.
StoreOperand(reg, b) ==
  IF b.addr # None THEN Done(BusWrite(b, b.addr[1], b.cpu[reg])) ELSE b

sta(b) == StoreOperand("acc", effective_addr(b))

stx(b) == StoreOperand("x", effective_addr(b))

sty(b) == StoreOperand("y", effective_addr(b))

\* Variant of SbcResult: the borrow is left out.
SbcResult_no_borrow(acc, data, status) == (acc - data + 65536) % 65536

\* (acc as u16).wrapping_sub(data as u16).wrapping_sub(!Carry as u16)
SbcResult(acc, data, status) ==
  (acc - data - (IF contains(status, Carry) THEN 0 ELSE 1) + 65536) % 65536

SbcStatus(acc, data, status) ==
  set(set(set(set(status,
                  Carry, BitAnd(SbcResult(acc, data, status), 256) = 0),
              Overflow, BitAnd(BitAnd(BitXor(acc, data),
                                      BitXor(acc, SbcResult(acc, data, status) % 256)),
                               128) # 0),
          Zero, SbcResult(acc, data, status) = 0),
      Negative, BitAnd(SbcResult(acc, data, status), 128) > 0)

SbcData(b) ==
  IF contains(SbcStatus(b.cpu.acc, b.data, b.cpu.status), Decimal)
    THEN Panic([b EXCEPT !.cpu.status = SbcStatus(b.cpu.acc, b.data, b.cpu.status)])
    ELSE [b EXCEPT !.cpu.status = SbcStatus(b.cpu.acc, b.data, b.cpu.status),
                   !.cpu.acc = SbcResult(b.cpu.acc, b.data, b.cpu.status) % 256]

SbcOperand(b) == IF b.addr # None THEN Finish(SbcData(BusRead(b, b.addr[1]))) ELSE b

sbc(b) == SbcOperand(effective_addr(b))

\* Variant of PcFromData: the high byte is not shifted into place.
PcFromData_unshifted(b) == [b EXCEPT !.cpu.pc = BitOr(b.data, b.proc.tmp0)]

\* cpu.pc = (high << 8) | tmp0, high the byte just read
PcFromData(b) == [b EXCEPT !.cpu.pc = BitOr(b.data * 256, b.proc.tmp0)]

jmp(b) ==
  CASE b.proc.mode = "Absolute" ->
         CASE b.proc.cycle = 2 -> Tmp0FromData(fetch(b))
           [] b.proc.cycle = 3 -> Finish(PcFromData(BusRead(b, b.cpu.pc)))
           [] OTHER -> b
    [] b.proc.mode = "Indirect" ->
         CASE b.proc.cycle = 2 -> Tmp0FromData(fetch(b))
           [] b.proc.cycle = 3 -> Tmp1FromData(fetch(b))
           [] b.proc.cycle = 4 ->
                ReadOperandAt(b, BitOr(b.proc.tmp1 * 256, b.proc.tmp0))
           [] b.proc.cycle = 5 ->
                Finish(PcFromData(Tmp1FromData(
                  BusRead(CheckU16(b, b.proc.tmp_addr + 1),
                          (b.proc.tmp_addr + 1) % 65536))))
           [] OTHER -> b
    [] OTHER -> Panic(b)

jsr(b) ==
  CASE b.proc.cycle = 2 -> Tmp0FromData(fetch(b))
    [] b.proc.cycle = 3 -> BusRead(b, 256 + b.cpu.sp)
    [] b.proc.cycle = 4 -> stack_push(b, b.cpu.pc \div 256)
    [] b.proc.cycle = 5 -> stack_push(b, BitAnd(b.cpu.pc, 255))
    [] b.proc.cycle = 6 -> Finish(PcFromData(Tmp1FromData(fetch(b))))
    [] OTHER -> b

\* Every other function of the catalogue is `unimplemented!()`.
unimplemented(b) == Panic(b)

OpFuncTable ==
  <<
    "brk", "ora", "none", "slo", "nop", "ora", "asl", "slo", "php", "ora", "asl", "anc", "nop", "ora", "asl", "slo",
    "bpl", "ora", "none", "slo", "nop", "ora", "asl", "slo", "clc", "ora", "nop", "slo", "nop", "ora", "asl", "slo",
    "jsr", "and", "none", "rla", "bit", "and", "rol", "rla", "plp", "and", "rol", "anc", "bit", "and", "rol", "rla",
    "bmi", "and", "none", "rla", "nop", "and", "rol", "rla", "sec", "and", "nop", "rla", "nop", "and", "rol", "rla",
    "rti", "eor", "none", "sre", "nop", "eor", "lsr", "sre", "pha", "eor", "lsr", "asr", "jmp", "eor", "lsr", "sre",
    "bvc", "eor", "none", "sre", "nop", "eor", "lsr", "sre", "cli", "eor", "nop", "sre", "nop", "eor", "lsr", "sre",
    "rts", "adc", "none", "rra", "nop", "adc", "ror", "rra", "pla", "adc", "ror", "arr", "jmp", "adc", "ror", "rra",
    "bvs", "adc", "none", "rra", "nop", "adc", "ror", "rra", "sei", "adc", "nop", "rra", "nop", "adc", "ror", "rra",
    "nop", "sta", "nop", "sax", "sty", "sta", "stx", "sax", "dey", "nop", "txa", "ane", "sty", "sta", "stx", "sax",
    "bcc", "sta", "none", "sha", "sty", "sta", "stx", "sax", "tya", "sta", "txs", "shs", "shy", "sta", "shx", "sha",
    "ldy", "lda", "ldx", "lax", "ldy", "lda", "ldx", "lax", "tay", "lda", "tax", "lxa", "ldy", "lda", "ldx", "lax",
    "bcs", "lda", "none", "lax", "ldy", "lda", "ldx", "lax", "clv", "lda", "tsx", "las", "ldy", "lda", "ldx", "lax",
    "cpy", "cmp", "nop", "dcp", "cpy", "cmp", "dec", "dcp", "iny", "cmp", "dex", "sbx", "cpy", "cmp", "dec", "dcp",
    "bne", "cmp", "none", "dcp", "nop", "cmp", "dec", "dcp", "cld", "cmp", "nop", "dcp", "nop", "cmp", "dec", "dcp",
    "cpx", "sbc", "nop", "isb", "cpx", "sbc", "inc", "isb", "inx", "sbc", "nop", "sbc", "cpx", "sbc", "inc", "isb",
    "beq", "sbc", "none", "isb", "nop", "sbc", "inc", "isb", "sed", "sbc", "nop", "isb", "nop", "sbc", "inc", "isb" >>

OpModeTable ==
  <<
    "Auto", "IndirectX", "none", "IndirectX", "Zero", "Zero", "Zero", "Zero", "Implied", "Immediate", "Accumulator", "Auto", "Absolute", "Absolute", "Absolute", "Absolute",
    "Relative", "IndirectY", "none", "IndirectY", "ZeroX", "ZeroX", "ZeroX", "ZeroX", "Implied", "AbsoluteY", "Implied", "AbsoluteY", "AbsoluteX", "AbsoluteX", "AbsoluteX", "AbsoluteX",
    "Auto", "IndirectX", "none", "IndirectX", "Zero", "Zero", "Zero", "Zero", "Implied", "Immediate", "Accumulator", "Auto", "Absolute", "Absolute", "Absolute", "Absolute",
    "Relative", "IndirectY", "none", "IndirectY", "ZeroX", "ZeroX", "ZeroX", "ZeroX", "Implied", "AbsoluteY", "Implied", "AbsoluteY", "AbsoluteX", "AbsoluteX", "AbsoluteX", "AbsoluteX",
    "Auto", "IndirectX", "none", "IndirectX", "Zero", "Zero", "Zero", "Zero", "Implied", "Immediate", "Accumulator", "Auto", "Absolute", "Absolute", "Absolute", "Absolute",
    "Relative", "IndirectY", "none", "IndirectY", "ZeroX", "ZeroX", "ZeroX", "ZeroX", "Auto", "AbsoluteY", "Implied", "AbsoluteY", "AbsoluteX", "AbsoluteX", "AbsoluteX", "AbsoluteX",
    "Implied", "IndirectX", "none", "IndirectX", "Zero", "Zero", "Zero", "Zero", "Implied", "Immediate", "Accumulator", "Auto", "Indirect", "Absolute", "Absolute", "Absolute",
    "Relative", "IndirectY", "none", "IndirectY", "ZeroX", "ZeroX", "ZeroX", "ZeroX", "Auto", "AbsoluteY", "Implied", "AbsoluteY", "AbsoluteX", "AbsoluteX", "AbsoluteX", "AbsoluteX",
    "Immediate", "IndirectX", "Immediate", "IndirectX", "Zero", "Zero", "Zero", "Zero", "Implied", "Immediate", "Implied", "Auto", "Absolute", "Absolute", "Absolute", "Absolute",
    "Relative", "IndirectY", "none", "IndirectY", "ZeroX", "ZeroX", "ZeroY", "ZeroY", "Implied", "AbsoluteY", "Implied", "Auto", "Auto", "AbsoluteX", "Auto", "AbsoluteY",
    "Immediate", "IndirectX", "Immediate", "IndirectX", "Zero", "Zero", "Zero", "Zero", "Implied", "Immediate", "Implied", "Auto", "Absolute", "Absolute", "Absolute", "Absolute",
    "Relative", "IndirectY", "none", "IndirectY", "ZeroX", "ZeroX", "ZeroY", "ZeroY", "Implied", "AbsoluteY", "Implied", "Auto", "AbsoluteX", "AbsoluteX", "AbsoluteY", "AbsoluteY",
    "Immediate", "IndirectX", "Immediate", "IndirectX", "Zero", "Zero", "Zero", "Zero", "Implied", "Immediate", "Implied", "Auto", "Absolute", "Absolute", "Absolute", "Absolute",
    "Relative", "IndirectY", "none", "IndirectY", "ZeroX", "ZeroX", "ZeroX", "ZeroX", "Auto", "AbsoluteY", "Implied", "AbsoluteY", "AbsoluteX", "AbsoluteX", "AbsoluteX", "AbsoluteX",
    "Immediate", "IndirectX", "Immediate", "IndirectX", "Zero", "Zero", "Zero", "Zero", "Implied", "Immediate", "Implied", "Immediate", "Absolute", "Absolute", "Absolute", "Absolute",
    "Relative", "IndirectY", "none", "IndirectY", "ZeroX", "ZeroX", "ZeroX", "ZeroX", "Auto", "AbsoluteY", "Implied", "AbsoluteY", "AbsoluteX", "AbsoluteX", "AbsoluteX", "AbsoluteX" >>

NTSC_COLOR_LUT ==
  <<
    0, 4210752, 7105644, 9474192, 11579568, 13158600, 14474460, 15527148,
    4473856, 6579216, 8684580, 10526772, 12105792, 13684816, 15263836, 16579688,
    0, 4210752, 7105644, 9474192, 11579568, 13158600, 14474460, 15527148,
    4473856, 6579216, 8684580, 10526772, 12105792, 13684816, 15263836, 16579688,
    0, 4210752, 7105644, 9474192, 11579568, 13158600, 14474460, 15527148,
    7864412, 9183348, 10501256, 11557020, 12611760, 13665472, 14458064, 15511776,
    4718712, 6299792, 7879844, 9197752, 10514636, 11830492, 12885228, 13938940,
    4473856, 6579216, 8684580, 10526772, 12105792, 13684816, 15263836, 16579688,
    0, 4210752, 7105644, 9474192, 11579568, 13158600, 14474460, 15527148,
    4473856, 6579216, 8684580, 10526772, 12105792, 13684816, 15263836, 16579688,
    0, 4210752, 7105644, 9474192, 11579568, 13158600, 14474460, 15527148,
    4473856, 6579216, 8684580, 10526772, 12105792, 13684816, 15263836, 16579688,
    0, 4210752, 7105644, 9474192, 11579568, 13158600, 14474460, 15527148,
    4473856, 6579216, 8684580, 10526772, 12105792, 13684816, 15263836, 16579688,
    0, 4210752, 7105644, 9474192, 11579568, 13158600, 14474460, 15527148,
    4473856, 6579216, 8684580, 10526772, 12105792, 13684816, 15263836, 16579688 >>
----------------------------------------------------------------------------
(* Cpu::cycle: decode (free of cycle cost) and one step of the procedure   *)

\* (self.func)(self, cpu, bus)
Call(b) ==
  CASE b.proc.func = "asl" -> asl(b)
    [] b.proc.func = "bcc" -> bcc(b)
    [] b.proc.func = "bcs" -> bcs(b)
    [] b.proc.func = "beq" -> beq(b)
    [] b.proc.func = "bmi" -> bmi(b)
    [] b.proc.func = "bne" -> bne(b)
    [] b.proc.func = "bpl" -> bpl(b)
    [] b.proc.func = "bvc" -> bvc(b)
    [] b.proc.func = "bvs" -> bvs(b)
    [] b.proc.func = "cld" -> cld(b)
    [] b.proc.func = "dex" -> dex(b)
    [] b.proc.func = "dey" -> dey(b)
    [] b.proc.func = "eor" -> eor(b)
    [] b.proc.func = "inx" -> inx(b)
    [] b.proc.func = "iny" -> iny(b)
    [] b.proc.func = "jmp" -> jmp(b)
    [] b.proc.func = "jsr" -> jsr(b)
    [] b.proc.func = "lda" -> lda(b)
    [] b.proc.func = "ldx" -> ldx(b)
    [] b.proc.func = "ldy" -> ldy(b)
    [] b.proc.func = "lsr" -> lsr(b)
    [] b.proc.func = "rol" -> rol(b)
    [] b.proc.func = "ror" -> ror(b)
    [] b.proc.func = "sbc" -> sbc(b)
    [] b.proc.func = "sec" -> sec(b)
    [] b.proc.func = "sed" -> sed(b)
    [] b.proc.func = "sei" -> sei(b)
    [] b.proc.func = "sta" -> sta(b)
    [] b.proc.func = "stx" -> stx(b)
    [] b.proc.func = "sty" -> sty(b)
    [] b.proc.func = "tax" -> tax(b)
    [] b.proc.func = "tay" -> tay(b)
    [] b.proc.func = "tsx" -> tsx(b)
    [] b.proc.func = "txa" -> txa(b)
    [] b.proc.func = "txs" -> txs(b)
    [] b.proc.func = "tya" -> tya(b)
    [] OTHER -> unimplemented(b)

\* self.cycle += 1 (u8)
CycleInc(b) ==
  IF b.fatal THEN b
  ELSE IF b.proc.cycle = 255
    THEN [(IF overflow_checks THEN Panic(b) ELSE b) EXCEPT !.proc.cycle = 0]
    ELSE [b EXCEPT !.proc.cycle = @ + 1]

\* InstructionProcedure::step: the function, then cycle += 1.
step(b) == CycleInc(Call(b))

\* Variant of Prefetch: the fetch at decode leaves the program counter on the opcode.
Prefetch_no_advance(b) ==
  IF b.cpu.prefetch = None
    THEN [PrefetchFromData(BusRead(b, b.cpu.pc)) EXCEPT !.cpu.fetch_needed = TRUE]
    ELSE b

\* if self.prefetch.is_none() { self.prefetch = Some(self.fetch(bus)); ... }
Prefetch(b) ==
  IF b.cpu.prefetch = None
    THEN [PrefetchFromData(fetch(b)) EXCEPT !.cpu.fetch_needed = TRUE]
    ELSE b

\* The match on the opcode: Some(procedure), or the panic of an absent opcode.
Decode(b, opcode) ==
  IF OpFuncTable[opcode + 1] = "none"
    THEN Panic(b)
    ELSE [b EXCEPT !.cpu.procedure =
            Some(InstructionProcedure_new(OpFuncTable[opcode + 1], OpModeTable[opcode + 1])),
                   !.cpu.fetch_needed = FALSE]

\* Variant of DecodePrefetch: the decode leaves the opcode in the slot.
DecodePrefetch_keep_slot(b) ==
  IF b.fatal THEN b
  ELSE Decode(Logged(b, "decode", 0, b.cpu.prefetch[1], "cpu"), b.cpu.prefetch[1])

\* let opcode = self.prefetch.unwrap(); self.prefetch = None; decode
DecodePrefetch(b) ==
  IF b.fatal THEN b
  ELSE Decode(Logged([b EXCEPT !.cpu.prefetch = None],
                     "decode", 0, b.cpu.prefetch[1], "cpu"),
              b.cpu.prefetch[1])

\* if self.procedure.is_none() { ... }
NextProcedure(b) ==
  IF b.cpu.procedure = None THEN DecodePrefetch(Prefetch(b)) ELSE b

\* Variant of Retire: the procedure is stored back whether done or not.
Retire_keep_done(b) ==
  IF b.fatal THEN b ELSE [b EXCEPT !.cpu.procedure = Some(b.proc)]

\* if proc.done { self.procedure = None } else { self.procedure = Some(proc) }
Retire(b) ==
  IF b.fatal THEN b
  ELSE [b EXCEPT !.cpu.procedure = IF b.proc.done THEN None ELSE Some(b.proc)]

\* let mut proc = self.procedure.unwrap(); proc.step(self, bus); ...
StepProcedure(b) ==
  IF b.fatal THEN b ELSE Retire(step([b EXCEPT !.proc = b.cpu.procedure[1]]))

CpuCycle(b) == StepProcedure(NextProcedure(Logged(b, "cpu", 0, 0, "cpu")))

----------------------------------------------------------------------------
(* Pia::cycle                                                              *)

\* usize::MAX of the 64-bit target, what `-= 1` on a usize 0 leaves in a build
\* without overflow checks.  It is above the integers of the checker, so a
\* counter that has wrapped is kept as its decimal text.
UsizeMax == "18446744073709551615"

\* How far below usize::MAX a wrapped counter is followed.
MaxWrapped == 3

\* v - 1 on usize, without overflow checks; below(k) is usize::MAX - k as text
UsizeSub1(v) ==
  LET below(k) == "18446744073" \o ToString(709551615 - k)
      ks == {k \in 0..MaxWrapped : ToString(v) = ToString(below(k))}
  IN IF ks # {} THEN below((CHOOSE k \in ks : TRUE) + 1)
     ELSE IF v = 0 THEN UsizeMax
     ELSE v - 1

\* v == 0 on usize (a number or the text of a wrapped one)
UsizeIsZero(v) == ToString(v) = "0"

\* Variant of IntervalElapsed: the interval stays active after the underflow.
IntervalElapsed_stay(b, v) ==
  [b EXCEPT !.pia.intim = v,
            !.pia.intim_interval_active = TRUE,
            !.pia.intim_counter = b.pia.intim_interval]

\* Variant of IntervalElapsed: the phase counter is left at 0 after the underflow.
IntervalElapsed_no_reload(b, v) ==
  [b EXCEPT !.pia.intim = v,
            !.pia.intim_interval_active = (v # 255),
            !.pia.intim_counter = IF v # 255 THEN b.pia.intim_interval ELSE 0]

\* intim_counter reached 0: intim = intim.wrapping_sub(1), reload or stop
IntervalElapsed(b, v) ==
  [b EXCEPT !.pia.intim = v,
            !.pia.intim_interval_active = (v # 255),
            !.pia.intim_counter = IF v # 255 THEN b.pia.intim_interval ELSE 1]

\* Variant of Countdown: an armed timer starts with a whole interval.
Countdown_whole_first(b) ==
  IF b.pia.intim_trigger
    THEN [b EXCEPT !.pia.intim_counter = b.pia.intim_interval,
                   !.pia.intim_interval_active = TRUE,
                   !.pia.intim_trigger = FALSE]
  ELSE IF b.pia.intim_interval_active
    THEN \* self.intim_counter -= 1: below zero it panics or wraps
         IF UsizeIsZero(b.pia.intim_counter) /\ overflow_checks THEN Panic(b)
         ELSE IF UsizeIsZero(UsizeSub1(b.pia.intim_counter))
           THEN IntervalElapsed(b, (b.pia.intim + 255) % 256)
         ELSE [b EXCEPT !.pia.intim_counter = UsizeSub1(@)]
  ELSE [b EXCEPT !.pia.intim = (@ + 255) % 256]

Countdown(b) ==
  IF b.pia.intim_trigger
    THEN [b EXCEPT !.pia.intim_counter = 1,
                   !.pia.intim_interval_active = TRUE,
                   !.pia.intim_trigger = FALSE]
  ELSE IF b.pia.intim_interval_active
    THEN \* self.intim_counter -= 1: below zero it panics or wraps
         IF UsizeIsZero(b.pia.intim_counter) /\ overflow_checks THEN Panic(b)
         ELSE IF UsizeIsZero(UsizeSub1(b.pia.intim_counter))
           THEN IntervalElapsed(b, (b.pia.intim + 255) % 256)
         ELSE [b EXCEPT !.pia.intim_counter = UsizeSub1(@)]
  ELSE [b EXCEPT !.pia.intim = (@ + 255) % 256]

PiaCycle(b) == Countdown(Logged(b, "pia", 0, 0, "pia"))

----------------------------------------------------------------------------
(* CycleCounter                                                            *)

\* Variant of osc_cycle: the divider is compared with `> 3`, so it wraps a tick late.
osc_cycle_div_late(c) ==
  [c EXCEPT !.osc = @ + 1,
            !.div3 = IF @ + 1 > 3 THEN 0 ELSE @ + 1,
            !.color_clock = IF @ + 1 = 228 THEN 0 ELSE @ + 1,
            !.scanline = IF c.color_clock + 1 = 228
                           THEN (IF @ + 1 = 262 THEN 0 ELSE @ + 1)
                           ELSE @]

\* Variant of osc_cycle: the color clock is compared with `> 228`, so it reaches 228.
osc_cycle_late_wrap(c) ==
  [c EXCEPT !.osc = @ + 1,
            !.div3 = IF @ + 1 = 3 THEN 0 ELSE @ + 1,
            !.color_clock = IF @ + 1 > 228 THEN 0 ELSE @ + 1,
            !.scanline = IF c.color_clock + 1 > 228
                           THEN (IF @ + 1 = 262 THEN 0 ELSE @ + 1)
                           ELSE @]

osc_cycle(c) ==
  [c EXCEPT !.osc = @ + 1,
            !.div3 = IF @ + 1 = 3 THEN 0 ELSE @ + 1,
            !.color_clock = IF @ + 1 = 228 THEN 0 ELSE @ + 1,
            !.scanline = IF c.color_clock + 1 = 228
                           THEN (IF @ + 1 = 262 THEN 0 ELSE @ + 1)
                           ELSE @]

pixel_index(c) == (c.scanline * 228) + c.color_clock

----------------------------------------------------------------------------
(* Tia: pf_lut, color_lut, cycle                                           *)

\* self.pfN & Bk, for the twenty dots of the left half
PfLeft(t, dot_index) ==
  CASE dot_index \in 0..3   -> BitAnd(t.pf0, 2^(dot_index + 4))
    [] dot_index \in 4..11  -> BitAnd(t.pf1, 2^(11 - dot_index))
    [] dot_index \in 12..19 -> BitAnd(t.pf2, 2^(dot_index - 12))

\* Variant of pf_lut: the right half repeats the left whatever the reflect bit.
pf_lut_no_reflect(t, dot_index, r) ==
  CASE dot_index \in 0..19 -> [ok |-> TRUE, val |-> PfLeft(t, dot_index)]
    [] dot_index \in 20..39 -> [ok |-> TRUE, val |-> PfLeft(t, dot_index - 20)]
    [] OTHER -> [ok |-> FALSE, val |-> 0]

\* ok is FALSE where the source panics ("invalid dot index")
pf_lut(t, dot_index, r) ==
  CASE dot_index \in 0..19 -> [ok |-> TRUE, val |-> PfLeft(t, dot_index)]
    [] dot_index \in 20..39 /\ r ->
         [ok |-> TRUE, val |-> PfLeft(t, (-(dot_index - 19)) + 20)]
    [] dot_index \in 20..39 /\ ~r -> [ok |-> TRUE, val |-> PfLeft(t, dot_index - 20)]
    [] OTHER -> [ok |-> FALSE, val |-> 0]

color_lut(t, reg) ==
  NTSC_COLOR_LUT[((IF reg # 0 THEN t.colupf ELSE t.colubk) \div 2) + 1]

\* let pf_bit = self.pf_lut(dot, self.ctrlpf & 0b1 != 0)
PfBit(t) == pf_lut(t, (t.cycles.color_clock - 68) \div 4, BitAnd(t.ctrlpf, 1) # 0)

\* Variant of Render: pixels are drawn before the first frame has started.
Render_before_frame(b) ==
  IF ~b.tia.vblank /\ b.tia.cycles.color_clock >= 68
    THEN IF ~PfBit(b.tia).ok THEN Panic(b)
         ELSE [b EXCEPT !.tia.framebuffer =
                 Store(@, pixel_index(b.tia.cycles), color_lut(b.tia, PfBit(b.tia).val))]
    ELSE b

\* The pixel of this tick: written when not in VBLANK, past the left border and
\* a frame has started.
Render(b) ==
  IF ~b.tia.vblank /\ b.tia.cycles.color_clock >= 68 /\ b.tia.cycles.frame_counter > 0
    THEN IF ~PfBit(b.tia).ok THEN Panic(b)
         ELSE [b EXCEPT !.tia.framebuffer =
                 Store(@, pixel_index(b.tia.cycles), color_lut(b.tia, PfBit(b.tia).val))]
    ELSE b

\* cpu.rdy = !self.wsync
SetRdy(b) == [b EXCEPT !.cpu.rdy = ~b.tia.wsync]

\* === Phi 2 CLOCK ===
Phi2(b) == IF b.fatal THEN b ELSE PiaCycle(b)

\* if self.cycles.div3 == 0 { frame_cpu_counter += 1; cpu.cycle(); pia.cycle() }
Phi(b) ==
  IF ~b.fatal /\ b.tia.cycles.div3 = 0
    THEN Phi2(CpuCycle([b EXCEPT !.tia.cycles.frame_cpu_counter = @ + 1]))
    ELSE b

\* Variant of WsyncRelease: the latch is released one color clock after the wrap.
WsyncRelease_late(b) ==
  IF b.tia.cycles.color_clock = 1 THEN [b EXCEPT !.tia.wsync = FALSE] ELSE b

\* if self.cycles.color_clock == 0 { self.wsync = false }
WsyncRelease(b) ==
  IF b.tia.cycles.color_clock = 0 THEN [b EXCEPT !.tia.wsync = FALSE] ELSE b

\* Variant of FrameLogic: the edge latch is not cleared.
FrameLogic_keep_trigger(b) ==
  IF b.tia.vsync_trigger /\ ~b.tia.vsync
    THEN [b EXCEPT !.tia.cycles.frame_cpu_counter = 0,
                   !.tia.cycles.scanline = 0,
                   !.tia.cycles.frame_counter = @ + 1]
    ELSE b

\* Variant of FrameLogic: the frame start resets the color clock and the divider too.
FrameLogic_reset_clock(b) ==
  IF b.tia.vsync_trigger /\ ~b.tia.vsync
    THEN [b EXCEPT !.tia.cycles.frame_cpu_counter = 0,
                   !.tia.cycles.scanline = 0,
                   !.tia.cycles.color_clock = 0,
                   !.tia.cycles.div3 = 0,
                   !.tia.cycles.frame_counter = @ + 1,
                   !.tia.vsync_trigger = FALSE]
    ELSE b

\* if self.vsync_trigger && !self.vsync { ... }
FrameLogic(b) ==
  IF b.tia.vsync_trigger /\ ~b.tia.vsync
    THEN [b EXCEPT !.tia.cycles.frame_cpu_counter = 0,
                   !.tia.cycles.scanline = 0,
                   !.tia.cycles.frame_counter = @ + 1,
                   !.tia.vsync_trigger = FALSE]
    ELSE b

\* self.cycles.osc_cycle(), then the two tests on the new counters
EndOfTick(b) ==
  IF b.fatal THEN b
  ELSE FrameLogic(WsyncRelease([b EXCEPT !.tia.cycles = osc_cycle(@)]))

TiaCycle(b) == EndOfTick(Phi(SetRdy(Render(b))))

----------------------------------------------------------------------------
(* ROM images.  A program is the byte sequence at the start of the 4 KiB    *)
(* window (0xF000); the reset vector (0xFFFC/0xFFFD) points at 0xF000 and   *)
(* every other byte of the image is 0.                                      *)

Image(prog) ==
  [i \in (0..(Len(prog) - 1)) \cup {4092, 4093} |->
     IF i < Len(prog) THEN prog[i + 1] ELSE IF i = 4093 THEN 240 ELSE 0]

\* LDA #2; STA WSYNC; LDX #1; INX; STX $80; JMP $F002
ProgWsync == <<169, 2, 133, 2, 162, 1, 232, 134, 128, 76, 2, 240>>

\* LDA #2; STA VSYNC; STA VSYNC; LDA #0; STA VSYNC; STA VSYNC; LDA #2; STA VSYNC;
\* LDA #0; STA VSYNC; LDA #$1E; STA COLUBK; LDA #$F0; STA PF0; JMP $F01C
ProgVsync ==
  <<169, 2, 133, 0, 133, 0, 169, 0, 133, 0, 133, 0, 169, 2, 133, 0,
    169, 0, 133, 0, 169, 30, 133, 9, 169, 240, 133, 13, 76, 28, 240>>

\* LDA #2; STA VBLANK; STA VSYNC; LDA #0; STA VSYNC; JMP $F00A
ProgFrame == <<169, 2, 133, 1, 133, 0, 169, 0, 133, 0, 76, 10, 240>>

\* LDX #0; LDA #2; STA VBLANK; STA VSYNC; LDA #0; STA VSYNC; JMP $F00C
ProgFrameLate == <<162, 0, 169, 2, 133, 1, 133, 0, 169, 0, 133, 0, 76, 12, 240>>

\* LDA #2; STA VBLANK; STA VSYNC; JMP $F006   (VSYNC is never lowered)
ProgVsyncHeld == <<169, 2, 133, 1, 133, 0, 76, 6, 240>>

\* One instruction per opcode byte, with operand bytes lo, hi.
OpcodeProgs == {<<op, o[1], o[2]>> : op \in 0..255, o \in {<<128, 0>>, <<5, 240>>}}

\* A flag setup (nothing; LDA #0; LDA #$80; LDA #$80, SBC #1), JMP to the branch,
\* and the branch with its displacement at offset 0x10, 0xFA or 0x100 of the
\* window, among INX.
BranchProgs ==
  {[i \in 1..(p[1] + 12) |->
      IF i <= Len(setup) THEN setup[i]
      ELSE IF i = Len(setup) + 1 THEN 76
      ELSE IF i = Len(setup) + 2 THEN p[1] % 256
      ELSE IF i = Len(setup) + 3 THEN 240 + (p[1] \div 256)
      ELSE IF i = p[1] + 1 THEN op
      ELSE IF i = p[1] + 2 THEN p[2]
      ELSE 232] :
     setup \in {<< >>, <<169, 0>>, <<169, 128>>, <<169, 128, 233, 1>>},
     op \in {16, 48, 80, 112, 144, 176, 208, 240},
     p \in {<<16, 5>>, <<250, 5>>, <<250, 1>>, <<250, 252>>, <<256, 251>>}}

\* The last set: JMP ($F0FF), with $10 at 0xF0FF, $F1 at 0xF100
\* and INX elsewhere.
Programs ==
  OpcodeProgs \cup {ProgWsync, ProgVsync, ProgVsyncHeld} \cup BranchProgs
    \cup {[i \in 1..258 |->
             IF i = 1 THEN 108 ELSE IF i = 2 THEN 255 ELSE IF i = 3 THEN hi
             ELSE IF i = 256 THEN 16 ELSE IF i = 257 THEN 241 ELSE 232] : hi \in {240}}

FramePrograms == {ProgFrame, ProgFrameLate, ProgVsyncHeld}

----------------------------------------------------------------------------
(* The machine after construction: Bus::default(), set_rom, init_pc        *)

TiaDefault ==
  [vsync |-> FALSE, vsync_trigger |-> FALSE, vblank |-> FALSE, wsync |-> FALSE,
   colupf |-> 0, colubk |-> 0, ctrlpf |-> 0, pf0 |-> 0, pf1 |-> 0, pf2 |-> 0,
   cycles |-> [osc |-> 0, div3 |-> 0, scanline |-> 0, color_clock |-> 0,
               frame_cpu_counter |-> 0, frame_counter |-> 0],
   framebuffer |-> << >>, fb_color |-> 0]

CpuDefault ==
  [pc |-> 0, sp |-> 0, status |-> StatusDefault, acc |-> 0, x |-> 0, y |-> 0,
   rdy |-> TRUE, stack |-> << >>, prefetch |-> None, fetch_needed |-> FALSE,
   cycles_to_wait |-> 0, procedure |-> None, counter |-> 1]

PiaDefault ==
  [ram |-> << >>, intim |-> 10, intim_interval |-> 1024,
   intim_interval_active |-> TRUE, intim_counter |-> 1, intim_trigger |-> FALSE]

\* self.pc = (cart.read(0xFFFD) << 8) | cart.read(0xFFFC)
init_pc(rom) == BitOr(Cell(rom, BitAnd(65533, 4095)) * 256, Cell(rom, BitAnd(65532, 4095)))

\* Observers: VSYNC rising edges seen, ticks since the last one and the frame
\* counter before it, ticks since the frame logic last fired and the color clock
\* it left, bus operations issued, the byte last written by a bus operation
\* to each RAM or stack address, and whether the last two bus operations were
\* reads of one address (rr).
\* For the timer: whether an interval register was written and the byte written
\* last, whether the first decrement after that write is still to come (armed),
\* the Pia::cycle calls since that write (n with a cap, age without one), the
\* decrements of the down-counter since the last operation, the cycles since the
\* last decrement, whether the down-counter was decremented from 0 since the
\* last write (under) or since the last write or read of the value register
\* (free), and whether the last step was a read of the value register.
ObsInit ==
  [edges |-> 0, edge_age |-> -1, edge_frames |-> 0, frame_age |-> -1, frame_cc |-> 0,
   ops |-> 0, wr |-> << >>,
   wseen |-> FALSE, wval |-> 0, armed |-> FALSE, n |-> 0, age |-> -1, decs |-> 0,
   gap |-> 0, under |-> FALSE, free |-> FALSE, rd |-> FALSE, rr |-> FALSE]

InitWith(progs) ==
  /\ cart \in {[rom |-> Image(prog)] : prog \in progs}
  /\ tia = TiaDefault
  /\ cpu = [CpuDefault EXCEPT !.pc = init_pc(cart.rom)]
  /\ pia = PiaDefault
  /\ fatal = FALSE
  /\ log = << >>
  /\ overflow_checks \in BOOLEAN
  /\ obs = ObsInit
  /\ main = "loop"

Machine ==
  [tia |-> tia, cpu |-> cpu, pia |-> pia, cart |-> cart, fatal |-> FALSE, log |-> << >>,
   data |-> 0, addr |-> None, proc |-> InstructionProcedure_new("none", "none")]

\* The machine r replaces the state, unless it panicked: then the process is gone
\* and the state of the last completed step stands.
Becomes(r) ==
  /\ fatal' = r.fatal
  /\ log' = r.log
  /\ IF r.fatal
       THEN UNCHANGED <<tia, cpu, pia, cart>>
       ELSE /\ tia' = r.tia
            /\ cpu' = r.cpu
            /\ pia' = r.pia
            /\ cart' = r.cart
  /\ UNCHANGED overflow_checks

\* What the tick that ends in r adds to the observers: a rising edge is VSYNC
\* low before and high after, a frame start is a change of the frame counter,
\* and an age counts the ticks since, once there was one.
Observe(r) ==
  IF r.fatal THEN obs
  ELSE [obs EXCEPT
          !.edges = IF ~tia.vsync /\ r.tia.vsync THEN @ + 1 ELSE @,
          !.edge_age = IF ~tia.vsync /\ r.tia.vsync THEN 0
                       ELSE IF @ < 0 THEN @ ELSE @ + 1,
          !.edge_frames = IF ~tia.vsync /\ r.tia.vsync
                            THEN tia.cycles.frame_counter ELSE @,
          !.frame_age = IF r.tia.cycles.frame_counter # tia.cycles.frame_counter THEN 0
                        ELSE IF @ < 0 THEN @ ELSE @ + 1,
          !.frame_cc = IF r.tia.cycles.frame_counter # tia.cycles.frame_counter
                         THEN r.tia.cycles.color_clock ELSE @]

----------------------------------------------------------------------------
(* The steps                                                               *)

MaxOsc == 700

MaxFrameOsc == 179300

MaxBusOps == 2

TickResult(r) == Becomes(r) /\ obs' = Observe(r)

\* update_window after the tick: a panic in Tia::cycle never gets here; the
\* window is drawn when the color clock is 0, and a failed draw panics
\* (unwrap); Escape down or a closed window makes main return.  The key and
\* the window are the user's, so each outcome is possible at every tick.
update_window ==
  main' \in IF fatal' THEN {"panicked"}
            ELSE {"loop", "returned"}
                   \cup (IF tia'.cycles.color_clock = 0 THEN {"panicked"} ELSE {})

\* main: one pass of the loop body, bus.tia.cycle(&bus_cell) (one oscillator
\* tick) and then update_window
Tick(limit) ==
  /\ main = "loop"
  /\ ~fatal
  /\ tia.cycles.osc < limit
  /\ TickResult(TiaCycle(Machine))
  /\ update_window

Init == InitWith(Programs)

Next == Tick(MaxOsc)

Spec == Init /\ [][Next]_vars

InitFrame == InitWith(FramePrograms)

NextFrame == Tick(MaxFrameOsc)

SpecFrame == InitFrame /\ [][NextFrame]_vars

\* The bus on its own: any sequence of Bus::write and Bus::read calls on the
\* machine after construction, over addresses at and around every boundary of
\* the address decoder.
BusAddrs ==
  {0, 2, 3, 13, 14, 44, 45, 47, 48, 50, 60, 61, 62, 127, 128, 255, 256, 384, 511, 512,
   639, 640, 644, 660, 663, 664, 61439, 61440, 65535}

BusData == {90, 165}

BusResult(r, wr) ==
  /\ Becomes(r)
  /\ UNCHANGED main
  /\ obs' = [obs EXCEPT !.ops = @ + 1, !.wr = wr,
                        !.rr = /\ ~r.fatal /\ log # << >>
                               /\ r.log[1].ev = "read" /\ log[1].ev = "read"
                               /\ r.log[1].addr = log[1].addr]

BusWriteOp ==
  /\ ~fatal
  /\ obs.ops < MaxBusOps
  /\ \E a \in BusAddrs, d \in BusData :
        BusResult(BusWrite(Machine, a, d),
                  IF a \in 128..511 THEN Store(obs.wr, a, d) ELSE obs.wr)

BusReadOp ==
  /\ ~fatal
  /\ obs.ops < MaxBusOps
  /\ \E a \in BusAddrs : BusResult(BusRead(Machine, a), obs.wr)

InitBus == InitWith({ProgWsync})

NextBus == BusWriteOp \/ BusReadOp

SpecBus == InitBus /\ [][NextBus]_vars

----------------------------------------------------------------------------
(* The timer on its own: writes of the interval registers, reads of the    *)
(* value register and Pia::cycle calls on the machine after construction,  *)
(* in any order.  After each write or read the cycles go on through        *)
(* MaxDecs decrements of the down-counter.  In the timer scenario up to   *)
(* MaxPreCycles cycles come first, then one write of the 1024-interval     *)
(* register and MaxTimerCycles cycles.                                     *)

MaxPiaOps == 2

MaxDecs == 4

MaxPreCycles == 2

MaxTimerCycles == 10300

\* A Pia::cycle call changes the down-counter only by decrementing it.
ObsCycle(r) ==
  [obs EXCEPT !.n = IF @ <= MaxPreCycles THEN @ + 1 ELSE @,
              !.age = IF @ < 0 THEN @ ELSE @ + 1,
              !.armed = @ /\ r.pia.intim = pia.intim,
              !.decs = IF r.pia.intim # pia.intim THEN @ + 1 ELSE @,
              !.gap = IF r.pia.intim # pia.intim THEN 0 ELSE IF @ < 1024 THEN @ + 1 ELSE @,
              !.under = @ \/ (r.pia.intim # pia.intim /\ pia.intim = 0),
              !.free = @ \/ (r.pia.intim # pia.intim /\ pia.intim = 0),
              !.rd = FALSE]

PiaResult(r, o) == Becomes(r) /\ obs' = (IF r.fatal THEN obs ELSE o) /\ UNCHANGED main

\* bus.write(a, d) for an interval register a
PiaWriteOp(ok, regs, data) ==
  /\ ~fatal
  /\ ok
  /\ \E a \in regs, d \in data :
        PiaResult(BusWrite(Machine, a, d),
                  [obs EXCEPT !.ops = @ + 1, !.wseen = TRUE, !.wval = d, !.armed = TRUE,
                              !.n = 0, !.age = 0, !.decs = 0, !.gap = 0,
                              !.under = FALSE, !.free = FALSE, !.rd = FALSE])

\* bus.read(0x0284)
PiaReadOp ==
  /\ ~fatal
  /\ obs.ops < MaxPiaOps
  /\ PiaResult(BusRead(Machine, 644),
               [obs EXCEPT !.ops = @ + 1, !.decs = 0, !.free = FALSE, !.rd = TRUE])

\* bus.pia.cycle(bus_cell)
PiaCycleOp(ok) ==
  /\ ~fatal
  /\ ok
  /\ PiaResult(PiaCycle(Machine), ObsCycle(PiaCycle(Machine)))

NextPia ==
  \/ PiaWriteOp(obs.ops < MaxPiaOps, 660..663, {0, 2})
  \/ PiaReadOp
  \/ PiaCycleOp(obs.decs < MaxDecs)

SpecPia == InitBus /\ [][NextPia]_vars

NextTimer ==
  \/ PiaWriteOp(~obs.wseen, {663}, {3, 10})
  \/ PiaCycleOp(IF obs.wseen THEN obs.age < MaxTimerCycles ELSE obs.n < MaxPreCycles)

SpecTimer == InitBus /\ [][NextTimer]_vars

----------------------------------------------------------------------------
(* Instruction and playfield cases: programs that load the registers with  *)
(* immediate operands, run one instruction on them and fall into the zero  *)
(* padding of the image (BRK, which ends the run), and programs that start *)
(* a frame, write the playfield and color registers and loop while the     *)
(* scanlines are drawn.                                                    *)

MaxCaseOsc == 470

\* Operand bytes at and around the sign, carry and page boundaries
Bytes == {0, 1, 2, 3, 64, 127, 128, 129, 192, 254, 255}

\* (SEC) is nothing or SEC.
\* LDA #v; (SEC); ASL A / LSR A / ROL A / ROR A, every byte v
\* LDA #v; STA $80; (SEC); the four shifts of $80 in the four memory modes
\* LDA #a; (SEC); SBC #m and LDA #a; EOR #m
\* LDA/LDX/LDY #v; one of the transfers, increments and decrements
\* LDX #v; TXS; LDX #1; TSX
\* LDX/LDY #i; an instruction of zero-page,X or zero-page,Y mode at base
\* LDX #s; TXS; JSR $F010
\* LDA #$11; LDX #$22; LDY #$33; a store in zero-page, absolute or indexed
\* zero-page mode at low byte lo and high byte hi
\* LDA #v; STA TIM1T; JMP $0284: the next opcode is fetched from the timer
\* a frame start (VSYNC high, then low) or none (VSYNC low twice), then PF0, PF1,
\* PF2, CTRLPF (reflect or not), COLUPF, COLUBK and VBLANK (off or on) written,
\* then JMP to itself
CasePrograms ==
  {<<169, v>> \o pre \o <<op>> : v \in 0..255, pre \in {<< >>, <<56>>}, op \in {10, 74, 42, 106}}
    \cup {<<169, v, 133, 128>> \o pre \o <<op, 128, 0>> :
            v \in Bytes, pre \in {<< >>, <<56>>},
            op \in {6, 22, 14, 30, 70, 86, 78, 94, 38, 54, 46, 62, 102, 118, 110, 126}}
    \cup {<<169, a>> \o pre \o <<op, m>> :
            a \in Bytes, pre \in {<< >>, <<56>>}, op \in {233, 73}, m \in Bytes}
    \cup {<<ld, v, op>> : ld \in {169, 162, 160}, v \in Bytes,
                          op \in {170, 168, 138, 152, 232, 200, 202, 136}}
    \cup {<<162, v, 154, 162, 1, 186>> : v \in Bytes}
    \cup {<<ld, i, op, base>> :
            ld \in {162, 160}, i \in Bytes, base \in {0, 1, 127, 128, 192, 255},
            op \in {181, 180, 182, 85, 245, 149, 148, 150, 22, 86, 54, 118}}
    \cup {<<162, s, 154, 32, 16, 240>> : s \in {0, 1, 2, 128, 255}}
    \cup {<<169, 17, 162, 34, 160, 51, st, lo, hi>> :
            st \in {132, 133, 134, 140, 141, 142, 148, 149, 150}, lo \in {128, 240}, hi \in {0, 1}}
    \cup {<<169, v, 141, 148, 2, 76, 132, 2>> : v \in {0, 1, 2}}
    \cup {<<169, c[1], 133, 0, 169, 0, 133, 0, 169, pf[1], 133, 13, 169, pf[2], 133, 14,
            169, pf[3], 133, 15, 169, c[2], 133, 10, 169, 68, 133, 8, 169, 30, 133, 9,
            169, c[3], 133, 1, 76, 36, 240>> :
            pf \in {<<16 * (2 ^ j), 0, 0>> : j \in 0..3}
                     \cup {<<0, 2 ^ j, 0>> : j \in 0..7}
                     \cup {<<0, 0, 2 ^ j>> : j \in 0..7}
                     \cup {<<0, 0, 0>>, <<15, 0, 0>>, <<255, 165, 90>>, <<240, 255, 255>>},
            c \in {<<2, 0, 0>>, <<2, 1, 0>>, <<2, 1, 2>>, <<0, 0, 0>>}}

NextCases == Tick(MaxCaseOsc)

SpecCases == InitWith(CasePrograms) /\ [][NextCases]_vars

----------------------------------------------------------------------------
(* The claims                                                              *)

IsCall(e) == e.ev \in {"cpu", "pia"}

IsAccess(e) == e.ev \in {"read", "write"}

\* The calls of Cpu::cycle and Pia::cycle made by the last tick, in order
CallNames == [i \in 1..Len(SelectSeq(log, IsCall)) |-> SelectSeq(log, IsCall)[i].ev]

\* C1: while the WSYNC latch is set the CPU is halted: a tick that starts with
\* the latch set leaves the program counter, the registers, the prefetch slot and
\* the in-flight procedure as they were and makes no bus access.
C1_HaltedWhileWsync ==
  [][tia.wsync =>
       /\ cpu'.pc = cpu.pc /\ cpu'.sp = cpu.sp /\ cpu'.status = cpu.status
       /\ cpu'.acc = cpu.acc /\ cpu'.x = cpu.x /\ cpu'.y = cpu.y
       /\ cpu'.prefetch = cpu.prefetch /\ cpu'.procedure = cpu.procedure
       /\ SelectSeq(log', IsAccess) = << >>]_vars

\* C2: the CPU and the timer are each advanced exactly once on the ticks 1, 4,
\* 7, ... (divider 0, the first tick included), CPU before timer, and on no other
\* tick.  A tick that panics is the CPU's or the timer's own, on such a tick.
C2_OncePerThreeTicks ==
  /\ (~fatal /\ tia.cycles.osc > 0) =>
        CallNames = IF (tia.cycles.osc - 1) % 3 = 0 THEN <<"cpu", "pia">> ELSE << >>
  /\ fatal => /\ tia.cycles.osc % 3 = 0
              /\ CallNames \in {<<"cpu">>, <<"cpu", "pia">>}

C2_Witness ==
  /\ ~fatal
  /\ tia.cycles.osc = 7
  /\ CallNames = <<"cpu", "pia">>
  /\ cpu.procedure # None

\* C3: color_clock is in 0..227, scanline in 0..261, and the framebuffer index
\* scanline*228 + color_clock is below 228*262, in every reachable state.
C3_CountersInRange ==
  /\ tia.cycles.color_clock \in 0..227
  /\ tia.cycles.scanline \in 0..261
  /\ pixel_index(tia.cycles) < 228 * 262

\* the last pixel of a frame that a VSYNC pulse started
C3_Witness ==
  /\ obs.frame_age >= 0
  /\ tia.cycles.scanline = 261
  /\ tia.cycles.color_clock = 227

WroteWsync(l) == \E i \in DOMAIN l : l[i].ev = "write" /\ l[i].addr = 2

\* C4: a tick in which WSYNC is written ends with the latch set; a latch set at
\* the start of a tick is still set at its end unless the tick wraps the color
\* clock to 0; and every tick that leaves the color clock at 0 leaves the latch
\* clear.
C4_WsyncLatch ==
  [][~fatal' =>
       /\ WroteWsync(log') => tia'.wsync
       /\ (tia.wsync /\ tia'.cycles.color_clock # 0) => tia'.wsync
       /\ (tia'.cycles.color_clock = 0) => ~tia'.wsync]_vars

\* the latch, written again after a release, held up to the end of a scanline
C4_Witness ==
  /\ tia.wsync
  /\ tia.cycles.scanline = 1
  /\ tia.cycles.color_clock = 227

VsyncRises == ~tia.vsync /\ tia'.vsync

\* C5: the tick in which VSYNC goes from low to high resets scanline
\* and the per-frame CPU-cycle counter and increments the frame counter at its
\* end, with VSYNC still high.
C5_FiresOnRisingTick ==
  [][VsyncRises =>
       /\ tia'.cycles.frame_counter = tia.cycles.frame_counter + 1
       /\ tia'.cycles.scanline = 0
       /\ tia'.cycles.frame_cpu_counter = 0]_vars

\* C6: the frame counter never decreases and grows by at most 1 per tick; it
\* grows only in a tick that starts with a rising edge latched; and rising edges
\* and increments pair off one to one: the edges seen so far are the increments
\* made so far plus the one edge still latched (VSYNC not yet lowered), so writes
\* that keep the level high or keep it low add nothing.
C6_OneFramePerEdge ==
  [][/\ tia'.cycles.frame_counter \in
          {tia.cycles.frame_counter, tia.cycles.frame_counter + 1}
     /\ (tia'.cycles.frame_counter # tia.cycles.frame_counter) => tia.vsync_trigger
     /\ obs'.edges = tia'.cycles.frame_counter + (IF tia'.vsync_trigger THEN 1 ELSE 0)
     /\ tia'.vsync_trigger => tia'.vsync]_vars

\* two pulses, each with a repeated high write and a repeated low write
C6_Witness ==
  /\ obs.edges = 2
  /\ tia.cycles.frame_counter = 2
  /\ ~tia.vsync_trigger

\* 228 x 262 x 3 oscillator ticks
FrameTicks == 228 * 262 * 3

\* C7: 228*262*3 ticks after a VSYNC rising edge, with no rising edge
\* since, scanline and color clock are both 0 and the frame counter is one more
\* than it was before the edge.
C7_OriginAfterEdge ==
  (~fatal /\ obs.edge_age = FrameTicks) =>
     /\ tia.cycles.scanline = 0
     /\ tia.cycles.color_clock = 0
     /\ tia.cycles.frame_counter = obs.edge_frames + 1

\* The address map as the claims state it
MapOwner(ev, a) ==
  CASE ev = "write" /\ a \in 0..44 -> "tia"
    [] ev = "read" /\ (a \in 0..13 \/ a \in 48..61) -> "tia"
    [] a \in 128..255 \/ a \in 640..663 -> "pia"
    [] a \in 256..511 -> "cpu"
    [] a \in 61440..65535 -> "cart"
    [] OTHER -> "none"

\* what a write handed to owner may change
OnlyOwnerChanges(owner) ==
  CASE owner = "tia" -> UNCHANGED <<cpu, pia, cart>>
    [] owner = "pia" -> UNCHANGED <<tia, cpu, cart>>
    [] owner = "cpu" -> UNCHANGED <<tia, pia, cart>> /\ cpu' = [cpu EXCEPT !.stack = cpu'.stack]
    [] owner = "cart" -> UNCHANGED <<tia, cpu, pia>>
    [] OTHER -> UNCHANGED <<tia, cpu, pia, cart>>

\* the read e is of a RAM or stack address written before
ReadsBack(e) == e.ev = "read" /\ e.addr \in DOMAIN obs.wr

\* C8: every bus access goes to the owner the address map gives for its address
\* and direction (to nobody outside the map); a write changes the state of that
\* owner only; and a read of a RAM or stack address returns the byte last written
\* to that address.
C8_DispatchByAddress ==
  [][\A i \in DOMAIN log' :
        IsAccess(log'[i]) =>
          /\ log'[i].owner = MapOwner(log'[i].ev, log'[i].addr)
          /\ (log'[i].owner = "none") => fatal'
          /\ (log'[i].ev = "write") => OnlyOwnerChanges(log'[i].owner)
          /\ ReadsBack(log'[i]) => (~fatal' /\ log'[i].val = obs.wr[log'[i].addr])]_vars

\* a stack byte written and read back
C8_Witness ==
  /\ ~fatal
  /\ obs.ops = 2
  /\ log = <<[ev |-> "read", addr |-> 511, val |-> 165, owner |-> "cpu"]>>
  /\ obs.wr = Store(<< >>, 511, 165)

UnmappedWrite(l) ==
  \E i \in DOMAIN l : l[i].ev = "write" /\ MapOwner("write", l[i].addr) = "none"

\* C9 as claimed: a bus write to an address outside the address map is ignored:
\* the machine state is unchanged and the run goes on.
C9_UnmappedWriteIgnored ==
  [][UnmappedWrite(log') => (~fatal' /\ UNCHANGED <<tia, cpu, pia, cart>>)]_vars

\* C9 amended: a bus write to an address outside the address map aborts the run:
\* the machine state is left as it was, and nothing runs after the abort.
C9_UnmappedWriteAborts ==
  [][/\ ~fatal
     /\ UnmappedWrite(log') => (fatal' /\ UNCHANGED <<tia, cpu, pia, cart>>)]_vars

\* the abort on a write just past the last TIA write register, after an
\* accepted RAM write
C9_Witness ==
  /\ fatal
  /\ log = <<[ev |-> "write", addr |-> 45, val |-> 90, owner |-> "none"]>>
  /\ Cell(pia.ram, 0) = 165

\* The addressing modes a step function has an arm for; the functions that never
\* look at the mode take any.
AddrModes ==
  {"Implied", "Accumulator", "Immediate", "Zero", "ZeroX", "ZeroY", "Relative",
   "Absolute", "AbsoluteX", "AbsoluteY", "Indirect", "IndirectX", "IndirectY", "Auto"}

SupportedModes(func) ==
  CASE func \in {"eor", "lda", "ldx", "ldy", "sbc", "sta", "stx", "sty"} ->
         {"Immediate", "Zero", "Absolute", "ZeroX", "ZeroY"}
    [] func \in {"asl", "lsr", "rol", "ror"} ->
         {"Accumulator", "Zero", "Absolute", "ZeroX", "AbsoluteX"}
    [] func = "jmp" -> {"Absolute", "Indirect"}
    [] func \in {"bcc", "bcs", "beq", "bmi", "bne", "bpl", "bvc", "bvs", "jsr",
                 "cld", "sec", "sed", "sei", "dex", "dey", "inx", "iny",
                 "tax", "tay", "tsx", "txa", "txs", "tya"} -> AddrModes
    [] OTHER -> {}

\* the opcode decodes to an implemented function under a mode it supports
Executable(opcode) ==
  OpModeTable[opcode + 1] \in SupportedModes(OpFuncTable[opcode + 1])

NotExecutableDecoded(l) ==
  \E i \in DOMAIN l : l[i].ev = "decode" /\ ~Executable(l[i].val)

\* C10: an opcode that is absent from the table, or decodes to an unimplemented
\* function or to a function under a mode it has no arm for, aborts the run in
\* the tick that decodes it (its first step at the latest), leaving registers and
\* memory as they were; the procedure in flight in a live run is always an
\* implemented function under a supported mode.
C10_DecodeOrAbort ==
  [][/\ NotExecutableDecoded(log') =>
          (fatal' /\ UNCHANGED <<tia, cpu, pia, cart>>)
     /\ (~fatal' /\ cpu'.procedure # None) =>
          cpu'.procedure[1].mode \in SupportedModes(cpu'.procedure[1].func)]_vars

\* LDA (zp,X), opcode 0xA1: an implemented function under a mode it has no arm for
C10_Witness ==
  /\ fatal
  /\ \E i \in DOMAIN log : log[i].ev = "decode" /\ log[i].val = 161
  /\ OpFuncTable[162] = "lda"
  /\ cpu.pc = 61440

----------------------------------------------------------------------------
(* The timer                                                               *)

PiaCycled(l) == \E i \in DOMAIN l : l[i].ev = "pia"

ReadIntim(l) == \E i \in DOMAIN l : l[i].ev = "read" /\ l[i].addr = 644

WroteInterval(l) == \E i \in DOMAIN l : l[i].ev = "write" /\ l[i].addr \in 660..663

Decremented == pia'.intim = (pia.intim + 255) % 256

\* C11: with V written to the 1024-interval register (V = 10 in the scenario),
\* the down-counter reads V for the first Pia::cycle call after the write,
\* V - 1 - (k - 2) \div 1024 after k calls for k in 2..1 + 1024*V, hence 0 after
\* 1 + 1024*V calls, and 0xFF with the timer free-running after one call more;
\* from there it goes down by one per call.
C11_TimerScenario ==
  (obs.wseen /\ ~fatal) =>
     /\ obs.age \in 0..1 => pia.intim = obs.wval
     /\ obs.age \in 2..(1 + 1024 * obs.wval) =>
           /\ pia.intim = obs.wval - 1 - ((obs.age - 2) \div 1024)
           /\ pia.intim_interval_active
     /\ obs.age = 1 + 1024 * obs.wval => pia.intim = 0
     /\ obs.age > 1 + 1024 * obs.wval =>
           /\ pia.intim = (255 - (obs.age - 2 - 1024 * obs.wval)) % 256
           /\ ~pia.intim_interval_active

C11_Witness ==
  /\ obs.wval = 10
  /\ obs.age = 1 + 1024 * 10 + 1
  /\ pia.intim = 255
  /\ ~pia.intim_interval_active
  /\ pia.intim_interval = 1024

\* C12: a write of V to an interval register leaves the down-counter at V, the
\* interval as the register selects and the timer armed.  Of the Pia::cycle calls
\* that follow the write (until the down-counter is decremented from 0), the
\* first changes nothing but the phase, the second decrements, and from then on
\* the calls that decrement are exactly those that come the selected interval
\* after the previous decrement.
C12_ArmedThenInterval ==
  [][~fatal' =>
       /\ WroteInterval(log') =>
             /\ \E i \in DOMAIN log' :
                   /\ log'[i].ev = "write"
                   /\ pia'.intim = log'[i].val
                   /\ pia'.intim_interval =
                        (CASE log'[i].addr = 660 -> 1 [] log'[i].addr = 661 -> 8
                           [] log'[i].addr = 662 -> 64 [] OTHER -> 1024)
             /\ pia'.intim_trigger
       /\ (PiaCycled(log') /\ obs.wseen /\ ~obs.under) =>
             /\ pia'.intim \in {pia.intim, (pia.intim + 255) % 256}
             /\ Decremented <=>
                  (IF obs.armed THEN obs.n = 1 ELSE obs.gap = pia.intim_interval - 1)]_vars

\* the second decrement after a write of 2 to the 64-interval register
C12_Witness ==
  /\ obs.wseen
  /\ obs.wval = 2
  /\ pia.intim = 0
  /\ pia.intim_interval = 64
  /\ obs.gap = 0
  /\ ~obs.armed
  /\ ~obs.under

\* C13 as stated: once the down-counter has been decremented from 0, every
\* Pia::cycle call decrements it until an interval register is written.
C13_FreeUntilWritten ==
  [][(PiaCycled(log') /\ ~fatal' /\ obs.under) => Decremented]_vars

\* C13: a decrement from 0 leaves 0xFF and the timer free-running; while no
\* interval register is written and the value register is not read, every
\* Pia::cycle call decrements the down-counter by one whatever the interval and
\* leaves the timer free-running; a read of the value register in that mode
\* switches the interval mode back on.
C13_FreeUntilRearmed ==
  [][~fatal' =>
       /\ (PiaCycled(log') /\ pia.intim = 0 /\ pia'.intim # 0) =>
             pia'.intim = 255 /\ ~pia'.intim_interval_active
       /\ (PiaCycled(log') /\ obs.free) => Decremented /\ ~pia'.intim_interval_active
       /\ obs.free => ~pia.intim_interval_active /\ ~pia.intim_trigger
       /\ (ReadIntim(log') /\ obs.free) => pia'.intim_interval_active]_vars

\* a Pia::cycle call that did not decrement, after an underflow and a read
C13_Witness ==
  /\ obs.under
  /\ ~obs.free
  /\ ~obs.rd
  /\ obs.gap > 0
  /\ pia.intim_interval_active
  /\ pia.intim_interval = 8

\* C14: a read of the value register returns the down-counter, and the
\* Pia::cycle call that follows the read decrements the down-counter.
C14_ReadRearms ==
  [][~fatal' =>
       /\ ReadIntim(log') => \E i \in DOMAIN log' : log'[i].ev = "read" /\ log'[i].val = pia.intim
       /\ (PiaCycled(log') /\ obs.rd) => Decremented]_vars

----------------------------------------------------------------------------
(* Reads without side effects                                              *)

\* C15: a bus read of any address but the timer value register leaves the
\* machine as it was, and when it follows a read of the same address with
\* nothing in between it returns the same byte.
C15_RereadSame ==
  [][\A i \in DOMAIN log' :
        (log'[i].ev = "read" /\ log'[i].addr # 644 /\ ~fatal') =>
          /\ UNCHANGED <<tia, cpu, pia, cart>>
          /\ obs'.rr => log'[i].val = log[1].val]_vars

\* the first ROM byte read twice
C15_Witness ==
  /\ ~fatal
  /\ obs.rr
  /\ log = <<[ev |-> "read", addr |-> 61440, val |-> 169, owner |-> "cart"]>>

----------------------------------------------------------------------------
(* Branches                                                                *)

CpuStepped(l) == \E i \in DOMAIN l : l[i].ev = "cpu"

\* the in-flight instruction is one of the eight conditional branches
BranchInFlight ==
  /\ cpu.procedure # None
  /\ cpu.procedure[1].func \in {"bpl", "bmi", "bvc", "bvs", "bcc", "bcs", "bne", "beq"}

\* the condition of branch f under the flags
Taken(f, status) ==
  CASE f = "bpl" -> BitAnd(status, 128) = 0
    [] f = "bmi" -> BitAnd(status, 128) # 0
    [] f = "bvc" -> BitAnd(status, 64) = 0
    [] f = "bvs" -> BitAnd(status, 64) # 0
    [] f = "bcc" -> BitAnd(status, 1) = 0
    [] f = "bcs" -> BitAnd(status, 1) # 0
    [] f = "bne" -> BitAnd(status, 2) = 0
    [] f = "beq" -> BitAnd(status, 2) # 0

\* the address after the branch instruction plus the sign-extended displacement
Target ==
  (cpu.pc + (IF cpu.procedure[1].tmp0 >= 128 THEN cpu.procedure[1].tmp0 - 256
             ELSE cpu.procedure[1].tmp0) + 65536) % 65536

\* C17: the Cpu::cycle call that decodes a branch is its cycle 1 and never its
\* last; the call of cycle 2 is the last exactly when the condition is false, the
\* call of cycle 3 exactly when the target has the high byte of the PC after the
\* operand fetch, and a call of cycle 4 always is: 2, 3 or 4 cycles.
C17_BranchCycles ==
  [][(CpuStepped(log') /\ ~fatal') =>
       /\ (\E i \in DOMAIN log' : log'[i].ev = "decode"
                                    /\ log'[i].val \in {16, 48, 80, 112, 144, 176, 208, 240})
            => (cpu'.procedure # None /\ cpu'.procedure[1].cycle = 2)
       /\ BranchInFlight =>
            /\ cpu.procedure[1].cycle \in 2..4
            /\ (cpu'.procedure = None) <=>
                 (CASE cpu.procedure[1].cycle = 2 ->
                         ~Taken(cpu.procedure[1].func, cpu.status)
                    [] cpu.procedure[1].cycle = 3 -> (cpu.pc \div 256) = (Target \div 256)
                    [] OTHER -> TRUE)]_vars

\* BVS at 0xF0FA, taken to 0xF101 on the next page, complete after its cycle 4
\* (cycle 11 of the run) with no INX executed
C17_Witness ==
  /\ ~fatal
  /\ Cell(cart.rom, 250) = 112
  /\ Cell(cart.rom, 251) = 5
  /\ contains(cpu.status, Overflow)
  /\ cpu.procedure = None
  /\ cpu.pc = 61698
  /\ cpu.x = 0
  /\ tia.cycles.frame_cpu_counter = 11

\* C18 as stated: a taken branch that completes leaves the program counter at
\* the address after the branch plus the sign-extended displacement.
C18_PcIsTarget ==
  [][(CpuStepped(log') /\ ~fatal' /\ BranchInFlight /\ cpu.procedure[1].cycle \in 3..4
        /\ cpu'.procedure = None) => cpu'.pc = Target]_vars

\* C18: a taken branch that completes has prefetched the opcode at the target
\* (the address after the branch plus the sign-extended displacement) and
\* leaves the program counter one past the target.
C18_PrefetchedTarget ==
  [][(CpuStepped(log') /\ ~fatal' /\ BranchInFlight /\ cpu.procedure[1].cycle \in 3..4
        /\ cpu'.procedure = None) =>
       /\ cpu'.pc = (Target + 1) % 65536
       /\ cpu'.prefetch = Some(Cell(cart.rom, Target % 4096))
       /\ \E i \in DOMAIN log' : log'[i].ev = "read" /\ log'[i].addr = Target]_vars

\* LDA #0; JMP $F010; BEQ +5 at 0xF010: complete after CPU cycles 6, 7, 8 of the
\* run with the opcode at 0xF017 prefetched
C18_Witness ==
  /\ ~fatal
  /\ Cell(cart.rom, 0) = 169 /\ Cell(cart.rom, 1) = 0
  /\ Cell(cart.rom, 16) = 240 /\ Cell(cart.rom, 17) = 5
  /\ contains(cpu.status, Zero)
  /\ cpu.procedure = None
  /\ cpu.prefetch = Some(232)
  /\ cpu.pc = 61464
  /\ cpu.x = 0
  /\ tia.cycles.frame_cpu_counter = 8

----------------------------------------------------------------------------
(* Indirect JMP, read-modify-write                                         *)

\* C19: the step of an indirect JMP that reads the high byte of the target
\* (cycle 5) reads it from the start of the pointer's page when the pointer's
\* low byte is 0xFF, and from pointer + 1 otherwise.
C19_IndirectPageWrap ==
  [][(CpuStepped(log') /\ cpu.procedure # None /\ cpu.procedure[1].func = "jmp"
        /\ cpu.procedure[1].mode = "Indirect" /\ cpu.procedure[1].cycle = 5) =>
       /\ SelectSeq(log', IsAccess) # << >>
       /\ SelectSeq(log', IsAccess)[1].addr =
            (IF cpu.procedure[1].tmp_addr % 256 = 255
               THEN cpu.procedure[1].tmp_addr - 255
               ELSE cpu.procedure[1].tmp_addr + 1)]_vars

IsWrite(e) == e.ev = "write"

\* the in-flight instruction is a shift or rotate of a memory operand
ShiftInFlight ==
  /\ cpu.procedure # None
  /\ cpu.procedure[1].func \in {"asl", "lsr", "rol", "ror"}
  /\ cpu.procedure[1].mode # "Accumulator"

\* the cycle of the final step of a read-modify-write in mode m
LastCycle(m) == IF m = "Zero" THEN 5 ELSE 6

\* C20: a shift or rotate of a memory operand makes two bus writes, both to the
\* effective address: the step before the last writes the operand as it was
\* read, the last step writes one byte (the modified value), and no other step
\* of the instruction writes.
C20_TwoWrites ==
  [][(CpuStepped(log') /\ ~fatal' /\ ShiftInFlight) =>
       (CASE cpu.procedure[1].cycle = LastCycle(cpu.procedure[1].mode) - 1 ->
               SelectSeq(log', IsWrite) =
                 <<[ev |-> "write", addr |-> cpu.procedure[1].tmp_addr,
                    val |-> cpu.procedure[1].tmp0,
                    owner |-> WriteOwner(cpu.procedure[1].tmp_addr)]>>
          [] cpu.procedure[1].cycle = LastCycle(cpu.procedure[1].mode) ->
               /\ cpu'.procedure = None
               /\ Len(SelectSeq(log', IsWrite)) = 1
               /\ SelectSeq(log', IsWrite)[1].addr = cpu.procedure[1].tmp_addr
          [] OTHER -> SelectSeq(log', IsWrite) = << >>)]_vars

----------------------------------------------------------------------------
(* Shifts and rotates                                                      *)

\* the in-flight instruction is a step function of the set fs
InFlight(fs) == cpu.procedure # None /\ cpu.procedure[1].func \in fs

\* the Cpu::cycle call of this tick retired the in-flight instruction
Completes == CpuStepped(log') /\ ~fatal' /\ cpu'.procedure = None

\* the 8-bit reference shift or rotate f of v with carry-in c
RefShift(f, v, c) ==
  CASE f = "asl" -> (2 * v) % 256
    [] f = "lsr" -> v \div 2
    [] f = "rol" -> (2 * v + c) % 256
    [] f = "ror" -> (v \div 2) + 128 * c

\* the bit that the reference shifts out
RefShiftedOut(f, v) == IF f \in {"asl", "rol"} THEN v \div 128 ELSE v % 2

\* the operand of the in-flight shift: the accumulator, or the byte read
ShiftIn == IF cpu.procedure[1].mode = "Accumulator" THEN cpu.acc ELSE cpu.procedure[1].tmp0

\* the result of the shift: the accumulator, or the byte written last
ShiftOut ==
  IF cpu.procedure[1].mode = "Accumulator" THEN cpu'.acc
  ELSE SelectSeq(log', IsWrite)[Len(SelectSeq(log', IsWrite))].val

\* C21: when ASL, LSR, ROL or ROR completes, in accumulator mode or on a memory
\* operand, the result is the reference 8-bit shift or rotate of the operand
\* (ROL and ROR shift the Carry of before in) and Carry is the bit shifted out;
\* LSR A on 0b00000011 leaves 0b00000001 with Carry set, Zero and Negative clear.
C21_ShiftReference ==
  [][(InFlight({"asl", "lsr", "rol", "ror"}) /\ Completes) =>
       /\ ShiftOut = RefShift(cpu.procedure[1].func, ShiftIn, cpu.status % 2)
       /\ cpu'.status % 2 = RefShiftedOut(cpu.procedure[1].func, ShiftIn)
       /\ (cpu.procedure[1].func = "lsr" /\ cpu.procedure[1].mode = "Accumulator"
             /\ cpu.acc = 3) =>
            /\ cpu'.acc = 1
            /\ contains(cpu'.status, Carry)
            /\ ~contains(cpu'.status, Zero)
            /\ ~contains(cpu'.status, Negative)]_vars

\* LDA #3; LSR A complete after its second cycle (cycle 4 of the run)
C21_Witness ==
  /\ ~fatal
  /\ Cell(cart.rom, 0) = 169 /\ Cell(cart.rom, 1) = 3 /\ Cell(cart.rom, 2) = 74
  /\ cpu.procedure = None
  /\ tia.cycles.frame_cpu_counter = 4
  /\ cpu.acc = 1
  /\ cpu.status = BitOr(StatusDefault, Carry)

----------------------------------------------------------------------------
(* Addressing modes of the loads, EOR, SBC and the stores                  *)

LoadStoreFuncs == {"lda", "ldx", "ldy", "eor", "sbc", "sta", "stx", "sty"}

\* the cycle in which the addressing-mode template hands over the address
ModeCycles(mode) ==
  CASE mode = "Immediate" -> 2
    [] mode = "Zero" -> 3
    [] mode \in {"Absolute", "ZeroX", "ZeroY"} -> 4
    [] OTHER -> 0

\* the bus accesses of the last tick, in order
Accesses(l) == SelectSeq(l, IsAccess)

\* the first bus access of the tick is at address a
FirstAccessAt(l, a) == Accesses(l) # << >> /\ Accesses(l)[1].addr = a

\* the first bus access of the tick is a read at the program counter
FetchesAtPc == FirstAccessAt(log', cpu.pc) /\ Accesses(log')[1].ev = "read"

\* C22: a load, EOR, SBC or store retires in the Cpu::cycle call of cycle 2 in
\* immediate mode, 3 in zero-page mode, 4 in absolute mode and 4 in zero-page,X
\* and zero-page,Y mode (the call that decodes the opcode being cycle 1) and in no
\* other; the operand bytes are fetched at the program counter in cycles 2 and 3;
\* and the access of the last cycle is at the program counter (immediate), at
\* (0x00, low) (zero-page) or at (high, low) (absolute).
C22_ModeCycles ==
  [][(CpuStepped(log') /\ InFlight(LoadStoreFuncs)) =>
       /\ ~fatal' =>
            ((cpu'.procedure = None) <=>
               (cpu.procedure[1].cycle = ModeCycles(cpu.procedure[1].mode)))
       /\ (cpu.procedure[1].cycle = 2 /\ cpu.procedure[1].mode # "Immediate") =>
            /\ FetchesAtPc
            /\ ~fatal' => cpu'.procedure[1].tmp0 = Accesses(log')[1].val
       /\ (cpu.procedure[1].cycle = 3 /\ cpu.procedure[1].mode = "Absolute") =>
            /\ FetchesAtPc
            /\ ~fatal' => cpu'.procedure[1].tmp1 = Accesses(log')[1].val
       /\ (cpu.procedure[1].cycle = ModeCycles(cpu.procedure[1].mode)
             /\ cpu.procedure[1].mode \in {"Immediate", "Zero", "Absolute"}) =>
            FirstAccessAt(log',
              CASE cpu.procedure[1].mode = "Immediate" -> cpu.pc
                [] cpu.procedure[1].mode = "Zero" -> cpu.procedure[1].tmp0
                [] OTHER -> 256 * cpu.procedure[1].tmp1 + cpu.procedure[1].tmp0)]_vars

\* LDA $0080 complete after its cycle 4, with the next opcode prefetched
C22_Witness ==
  /\ ~fatal
  /\ Cell(cart.rom, 0) = 173 /\ Cell(cart.rom, 1) = 128 /\ Cell(cart.rom, 2) = 0
  /\ cpu.procedure = None
  /\ cpu.prefetch = Some(0)
  /\ cpu.pc = 61444
  /\ tia.cycles.frame_cpu_counter = 4
  /\ \E i \in DOMAIN log : log[i] = [ev |-> "read", addr |-> 128, val |-> 0, owner |-> "pia"]

----------------------------------------------------------------------------
(* JSR                                                                     *)

\* the bus accesses of the tick, as <<kind, address>> pairs
AccessKinds(l) == [i \in DOMAIN Accesses(l) |-> <<Accesses(l)[i].ev, Accesses(l)[i].addr>>]

\* The bus activity of the five cycles after the opcode fetch, the value pushed
\* (the program counter after the low-byte fetch, which is where cycle 6 reads
\* the high byte: the address of the last byte of the instruction) and the jump.
JsrSequence ==
  /\ (cpu'.procedure = None) <=> (cpu.procedure[1].cycle = 6)
  /\ cpu.procedure[1].cycle = 2 =>
       /\ AccessKinds(log') = << <<"read", cpu.pc>> >>
       /\ cpu'.pc = cpu.pc + 1 /\ cpu'.sp = cpu.sp
  /\ cpu.procedure[1].cycle = 3 =>
       /\ AccessKinds(log') = << <<"read", 256 + cpu.sp>> >>
       /\ cpu' = [cpu EXCEPT !.procedure = cpu'.procedure]
  /\ cpu.procedure[1].cycle = 4 =>
       /\ AccessKinds(log') = << <<"write", 256 + cpu.sp>> >>
       /\ Accesses(log')[1].val = cpu.pc \div 256
       /\ cpu'.pc = cpu.pc /\ cpu'.sp = (cpu.sp + 255) % 256
  /\ cpu.procedure[1].cycle = 5 =>
       /\ AccessKinds(log') = << <<"write", 256 + cpu.sp>> >>
       /\ Accesses(log')[1].val = cpu.pc % 256
       /\ cpu'.pc = cpu.pc /\ cpu'.sp = (cpu.sp + 255) % 256
  /\ cpu.procedure[1].cycle = 6 =>
       /\ AccessKinds(log') =
            << <<"read", cpu.pc>>,
               <<"read", 256 * Accesses(log')[1].val + cpu.procedure[1].tmp0>> >>
       /\ cpu'.pc = (256 * Accesses(log')[1].val + cpu.procedure[1].tmp0 + 1) % 65536
       /\ cpu'.prefetch = Some(Accesses(log')[2].val)
       /\ cpu'.sp = cpu.sp

\* C23 as stated: JSR takes the five cycles with that bus activity, and the high
\* byte of the pushed value lies at the stack address one above the low byte's.
C23_HighAboveLow ==
  [][(CpuStepped(log') /\ ~fatal' /\ InFlight({"jsr"})) =>
       /\ JsrSequence
       /\ cpu.procedure[1].cycle = 5 =>
            Cell(cpu'.stack, cpu.sp + 1) = cpu.pc \div 256]_vars

\* C23: JSR takes five cycles beyond the opcode fetch: fetch of the target low
\* byte, discarded read at 0x0100+SP, push of PC high at 0x0100+SP, push of PC low
\* at 0x0100+((SP-1) mod 256), fetch of the target high byte and jump (with the
\* opcode at the target prefetched).  The value pushed is the address of the last
\* byte of the JSR instruction, the high byte lies one above the low byte within
\* the stack page, wrapping from 0x01FF to 0x0100, and SP ends 2 lower mod 256.
C23_JsrPushesInPage ==
  [][(CpuStepped(log') /\ ~fatal' /\ InFlight({"jsr"})) =>
       /\ JsrSequence
       /\ cpu.procedure[1].cycle = 5 =>
            /\ Cell(cpu'.stack, (cpu.sp + 1) % 256) = cpu.pc \div 256
            /\ Cell(cpu'.stack, cpu.sp) = cpu.pc % 256]_vars

\* LDX #0; TXS; JSR $F010 complete: 0xF005 pushed, high byte at 0x0100, low byte
\* at 0x01FF, SP = 0xFE
C23_Witness ==
  /\ ~fatal
  /\ Cell(cart.rom, 0) = 162 /\ Cell(cart.rom, 1) = 0 /\ Cell(cart.rom, 3) = 32
  /\ cpu.procedure = None
  /\ cpu.pc = 61457
  /\ cpu.sp = 254
  /\ Cell(cpu.stack, 0) = 240
  /\ Cell(cpu.stack, 255) = 5

----------------------------------------------------------------------------
(* The pixel of a tick                                                     *)

\* the tick draws: not in VBLANK, past the left border, a frame has started
Draws == ~tia.vblank /\ tia.cycles.color_clock >= 68 /\ tia.cycles.frame_counter > 0

\* the framebuffer cells other than i are as they were, written or not
OthersUnchanged(i) ==
  /\ DOMAIN tia'.framebuffer \ {i} = DOMAIN tia.framebuffer \ {i}
  /\ \A j \in DOMAIN tia.framebuffer \ {i} : tia'.framebuffer[j] = tia.framebuffer[j]

\* C24: a tick writes the framebuffer iff VBLANK is clear, the color clock is at
\* least 68 and the frame counter is above 0 (all as the tick starts); it then
\* writes the one cell scanline*228 + color_clock, with the color table entry of
\* the playfield color register when the playfield bit of dot (color_clock-68)/4
\* is set and of the background color register when it is clear; no other cell
\* changes, no other tick changes any cell, and no cell left of color clock 68 is
\* ever written.
C24_OnePixelPerTick ==
  [][~fatal' =>
       /\ Draws =>
            /\ pixel_index(tia.cycles) \in DOMAIN tia'.framebuffer
            /\ tia'.framebuffer[pixel_index(tia.cycles)] =
                 NTSC_COLOR_LUT[((IF PfBit(tia).val # 0 THEN tia.colupf ELSE tia.colubk)
                                   \div 2) + 1]
            /\ OthersUnchanged(pixel_index(tia.cycles))
       /\ ~Draws => tia'.framebuffer = tia.framebuffer
       /\ \A j \in DOMAIN tia'.framebuffer : j % 228 >= 68]_vars

\* PF0 = 0x10 without reflection, at the end of the run: on scanline 1 dot 0 has
\* the playfield color, dot 1 the background color, scanline 0 was drawn from
\* color clock 68 with the color registers still 0, and nothing left of it
C24_Witness ==
  /\ ~fatal
  /\ tia.cycles.osc = MaxCaseOsc
  /\ tia.pf0 = 16 /\ tia.pf1 = 0 /\ tia.pf2 = 0 /\ tia.ctrlpf = 0 /\ ~tia.vblank
  /\ tia.cycles.frame_counter = 1
  /\ Cell(tia.framebuffer, 228 + 68) = NTSC_COLOR_LUT[35]
  /\ Cell(tia.framebuffer, 228 + 72) = NTSC_COLOR_LUT[16]
  /\ 228 + 67 \notin DOMAIN tia.framebuffer
  /\ 67 \notin DOMAIN tia.framebuffer
  /\ 68 \in DOMAIN tia.framebuffer /\ tia.framebuffer[68] = NTSC_COLOR_LUT[1]

----------------------------------------------------------------------------
(* The playfield lookup                                                    *)

\* bit k of the byte v
Bit(v, k) == (v \div (2 ^ k)) % 2

\* the reference for the left half: PF0 bits 4..7, PF1 bits 7..0, PF2 bits 0..7
RefLeftDot(d) ==
  IF d < 4 THEN Bit(tia.pf0, d + 4)
  ELSE IF d < 12 THEN Bit(tia.pf1, 11 - d)
  ELSE Bit(tia.pf2, d - 12)

\* the reference for the forty dots: the right half mirrors or repeats the left
RefDot(d) ==
  IF d < 20 THEN RefLeftDot(d)
  ELSE IF tia.ctrlpf % 2 = 1 THEN RefLeftDot(39 - d)
  ELSE RefLeftDot(d - 20)

\* the dot of the color clock
Dot == (tia.cycles.color_clock - 68) \div 4

\* C25: the dot index of every color clock in 68..227 is in 0..39, and in every
\* tick that draws, the playfield lookup yields the reference bit of that dot
\* (PF0 bits 4..7, PF1 bits 7..0, PF2 bits 0..7 for dots 0..19; dot 39-d with the
\* reflect bit set and dot d-20 with it clear for a dot d in 20..39), which is the
\* bit that picks the color of the pixel.
C25_PlayfieldReference ==
  [][~fatal' =>
       /\ tia.cycles.color_clock >= 68 => Dot \in 0..39
       /\ Draws =>
            /\ PfBit(tia).ok
            /\ (PfBit(tia).val # 0) <=> (RefDot(Dot) = 1)
            /\ tia'.framebuffer[pixel_index(tia.cycles)] =
                 NTSC_COLOR_LUT[((IF RefDot(Dot) = 1 THEN tia.colupf ELSE tia.colubk)
                                   \div 2) + 1]]_vars

\* PF0 = 0x10 with reflection, at the end of the run: dot 0 and its mirror image
\* dot 39 have the playfield color, dot 20 the background color
C25_Witness ==
  /\ ~fatal
  /\ tia.cycles.osc = MaxCaseOsc
  /\ tia.pf0 = 16 /\ tia.pf1 = 0 /\ tia.pf2 = 0 /\ tia.ctrlpf = 1 /\ ~tia.vblank
  /\ Cell(tia.framebuffer, 228 + 68) = NTSC_COLOR_LUT[35]
  /\ Cell(tia.framebuffer, 228 + 68 + 4 * 39) = NTSC_COLOR_LUT[35]
  /\ Cell(tia.framebuffer, 228 + 68 + 4 * 20) = NTSC_COLOR_LUT[16]

----------------------------------------------------------------------------
(* Zero-page,X and zero-page,Y                                             *)

\* the in-flight instruction uses zero-page,X or zero-page,Y addressing
ZeroIndexedInFlight ==
  cpu.procedure # None /\ cpu.procedure[1].mode \in {"ZeroX", "ZeroY"}

\* C26: the step of cycle 3 of an instruction in zero-page,X or zero-page,Y mode
\* makes one bus access, a read at the unindexed address (0x00, base).
C26_DiscardedRead ==
  [][(CpuStepped(log') /\ ZeroIndexedInFlight /\ cpu.procedure[1].cycle = 3) =>
       AccessKinds(log') = << <<"read", cpu.procedure[1].tmp0>> >>]_vars

\* the index register of the in-flight instruction's mode
IndexReg == IF cpu.procedure[1].mode = "ZeroX" THEN cpu.x ELSE cpu.y

\* C27: an instruction in zero-page,X or zero-page,Y mode fetches its base byte
\* at the program counter in cycle 2, and the access of cycle 4 is at
\* (base + index) mod 256, an address of page 0, for every base and index; the
\* writes of a read-modify-write (cycles 5 and 6) go to that same address.
C27_IndexWrapsInPageZero ==
  [][(CpuStepped(log') /\ ZeroIndexedInFlight) =>
       /\ cpu.procedure[1].cycle = 2 =>
            /\ FetchesAtPc
            /\ ~fatal' => cpu'.procedure[1].tmp0 = Accesses(log')[1].val
       /\ cpu.procedure[1].cycle = 4 =>
            /\ FirstAccessAt(log', (cpu.procedure[1].tmp0 + IndexReg) % 256)
            /\ Accesses(log')[1].addr \in 0..255
            /\ (~fatal' /\ cpu'.procedure # None) =>
                 cpu'.procedure[1].tmp_addr = Accesses(log')[1].addr
       /\ cpu.procedure[1].cycle \in 5..6 =>
            /\ FirstAccessAt(log', cpu.procedure[1].tmp_addr)
            /\ cpu.procedure[1].tmp_addr \in 0..255]_vars

\* LDX #$81; LDA $FF,X complete: the operand was read at 0x0080, not at 0x0180
C27_Witness ==
  /\ ~fatal
  /\ Cell(cart.rom, 0) = 162 /\ Cell(cart.rom, 1) = 129
  /\ Cell(cart.rom, 2) = 181 /\ Cell(cart.rom, 3) = 255
  /\ cpu.x = 129
  /\ cpu.procedure = None
  /\ tia.cycles.frame_cpu_counter = 6
  /\ \E i \in DOMAIN log : log[i] = [ev |-> "read", addr |-> 128, val |-> 0, owner |-> "pia"]

----------------------------------------------------------------------------
(* JMP                                                                     *)

\* the cycle in which a JMP of the mode retires, as stated and as found
JmpLastStated(mode) == IF mode = "Indirect" THEN 4 ELSE 3

JmpLastFound(mode) == IF mode = "Indirect" THEN 5 ELSE 3

\* the step is one of a JMP in flight that went through
JmpStepped == CpuStepped(log') /\ ~fatal' /\ InFlight({"jmp"})

\* C28 as stated: an absolute JMP retires 2 cycles after the cycle of the opcode
\* fetch and an indirect JMP 3 cycles after it.
C28_IndirectPlusThree ==
  [][JmpStepped =>
       ((cpu'.procedure = None) <=>
          (cpu.procedure[1].cycle = JmpLastStated(cpu.procedure[1].mode)))]_vars

\* C28: an absolute JMP retires 2 cycles after the cycle of the opcode fetch and
\* an indirect JMP 4 cycles after it (operand low, operand high, pointer low,
\* pointer high); the last cycle reads the high byte of the target, prefetches
\* the opcode at the target and leaves the program counter one past the target.
C28_IndirectPlusFour ==
  [][JmpStepped =>
       /\ (cpu'.procedure = None) <=>
            (cpu.procedure[1].cycle = JmpLastFound(cpu.procedure[1].mode))
       /\ cpu.procedure[1].cycle = JmpLastFound(cpu.procedure[1].mode) =>
            /\ Len(Accesses(log')) = 2
            /\ Accesses(log')[2].ev = "read"
            /\ Accesses(log')[2].addr = 256 * Accesses(log')[1].val + cpu.procedure[1].tmp0
            /\ cpu'.prefetch = Some(Accesses(log')[2].val)
            /\ cpu'.pc = (Accesses(log')[2].addr + 1) % 65536]_vars

\* JMP ($F0FF) complete after its cycle 5: target 0xF110 from the pointer bytes
\* 0x10 and 0xF1, the opcode there (0x00) prefetched
C28_Witness ==
  /\ ~fatal
  /\ Cell(cart.rom, 0) = 108 /\ Cell(cart.rom, 1) = 255 /\ Cell(cart.rom, 2) = 240
  /\ cpu.procedure = None
  /\ cpu.prefetch = Some(0)
  /\ cpu.pc = 61713
  /\ tia.cycles.frame_cpu_counter = 5

----------------------------------------------------------------------------
(* Zero and Negative                                                       *)

\* the instructions that set Zero and Negative from their result
ZNFuncs ==
  {"lda", "ldx", "ldy", "tax", "tay", "txa", "tya", "tsx", "inx", "iny", "dex", "dey",
   "eor", "asl", "lsr", "rol", "ror", "sbc"}

\* the result byte of the instruction that completes: the register it assigns,
\* or the byte a shift of a memory operand writes
ResultByte(f) ==
  CASE f \in {"lda", "txa", "tya", "eor", "sbc"} -> cpu'.acc
    [] f \in {"ldx", "tax", "tsx", "inx", "dex"} -> cpu'.x
    [] f \in {"ldy", "tay", "iny", "dey"} -> cpu'.y
    [] OTHER -> ShiftOut

\* Zero and Negative after the step are those of the byte v
FlagsOf(v) ==
  /\ contains(cpu'.status, Zero) <=> (v = 0)
  /\ contains(cpu'.status, Negative) <=> (v >= 128)

\* C29: when an instruction that updates Zero and Negative completes, Zero is
\* set iff its 8-bit result is 0 and Negative iff bit 7 of the result is set.
C29_UniformZeroNegative ==
  [][(InFlight(ZNFuncs) /\ Completes) => FlagsOf(ResultByte(cpu.procedure[1].func))]_vars

----------------------------------------------------------------------------
(* SBC                                                                     *)

\* the byte v as a signed number
Signed(v) == IF v >= 128 THEN v - 256 ELSE v

\* the borrow: 1 - Carry of before
Borrow == 1 - (cpu.status % 2)

\* the operand: the byte that the read of the last cycle returned
SbcOperandByte == Accesses(log')[1].val

\* C30: when SBC completes with the Decimal flag clear, the accumulator is
\* (A - M - (1 - C)) mod 256, Carry is set iff A >= M + (1 - C), and Overflow is
\* set iff Signed(A) - Signed(M) - (1 - C) is outside -128..127, for the
\* accumulator A, operand M and Carry C of before.
C30_SbcBinary ==
  [][(InFlight({"sbc"}) /\ Completes /\ ~contains(cpu.status, Decimal)) =>
       /\ cpu'.acc = (cpu.acc - SbcOperandByte - Borrow) % 256
       /\ contains(cpu'.status, Carry) <=> (cpu.acc >= SbcOperandByte + Borrow)
       /\ contains(cpu'.status, Overflow) <=>
            (Signed(cpu.acc) - Signed(SbcOperandByte) - Borrow \notin -128..127)]_vars

\* LDA #$80; SBC #1 with Carry clear: -128 - 1 - 1 leaves 0x7E, Carry and
\* Overflow set
C30_Witness ==
  /\ ~fatal
  /\ Cell(cart.rom, 0) = 169 /\ Cell(cart.rom, 1) = 128
  /\ Cell(cart.rom, 2) = 233 /\ Cell(cart.rom, 3) = 1
  /\ cpu.procedure = None
  /\ tia.cycles.frame_cpu_counter = 4
  /\ cpu.acc = 126
  /\ cpu.status = BitOr(StatusDefault, BitOr(Overflow, Carry))

----------------------------------------------------------------------------
(* Decode and the prefetch slot                                            *)

\* the Cpu::cycle call of this tick decodes an opcode
Decodes == CpuStepped(log') /\ cpu.procedure = None

\* The machine as it would stand had the opcode come the other way: with the
\* byte at the program counter already in the prefetch slot when the slot is
\* empty, and with the slot empty and the program counter on the opcode when
\* the slot is occupied.
OtherWay ==
  IF cpu.prefetch = None
    THEN [Machine EXCEPT !.cpu.prefetch = Some(Accesses(log')[1].val),
                         !.cpu.pc = (cpu.pc + 1) % 65536]
    ELSE [Machine EXCEPT !.cpu.prefetch = None, !.cpu.pc = (cpu.pc + 65535) % 65536]

\* C31: the Cpu::cycle call that decodes an opcode also makes the first step of
\* the procedure (the cycle index is 2 after it, whether the opcode was in the
\* prefetch slot or is fetched in that call), every later call steps the
\* procedure once, and the CPU after the decoding call is the same whether the
\* opcode was prefetched or fetched at decode (the ready line, which the Tia sets
\* in the same tick, apart): the cycles from decode to completion do not depend
\* on it.
C31_DecodeIsFree ==
  [][(CpuStepped(log') /\ ~fatal') =>
       /\ Decodes =>
            /\ cpu'.procedure # None
            /\ cpu'.procedure[1].cycle = 2
            /\ cpu'.prefetch = None
            /\ Len(Accesses(log')) = (IF cpu.prefetch = None THEN 1 ELSE 0)
            /\ cpu.prefetch = None => FetchesAtPc
            /\ ~CpuCycle(OtherWay).fatal
            /\ CpuCycle(OtherWay).cpu = [cpu' EXCEPT !.rdy = cpu.rdy]
       /\ ~Decodes =>
            \/ cpu'.procedure = None
            \/ cpu'.procedure[1].cycle = cpu.procedure[1].cycle + 1]_vars

\* LDA #2; STA WSYNC; LDX #1: the store leaves the slot empty, LDX is fetched
\* at decode and completes in its second cycle (cycle 7 of the run), as LDA did
C31_Witness ==
  /\ ~fatal
  /\ cart.rom = Image(ProgWsync)
  /\ tia.cycles.frame_cpu_counter = 7
  /\ cpu.procedure = None
  /\ cpu.x = 1
  /\ cpu.prefetch = Some(232)

----------------------------------------------------------------------------
(* The in-flight instruction state                                         *)

\* the machine on which the Cpu::cycle call of this tick runs, with the opcode
\* decoded if none was in flight
Decoded == NextProcedure(Logged(SetRdy(Render(Machine)), "cpu", 0, 0, "cpu"))

\* the procedure after the one step of this tick, as the step left it
Stepped == step([Decoded EXCEPT !.proc = Decoded.cpu.procedure[1]]).proc

\* the procedure that the step of this tick started from: the one in flight, or
\* the one created for the opcode being decoded
StartedFrom ==
  IF cpu.procedure # None THEN cpu.procedure[1]
  ELSE InstructionProcedure_new(
         OpFuncTable[SelectSeq(log', LAMBDA e : e.ev = "decode")[1].val + 1],
         OpModeTable[SelectSeq(log', LAMBDA e : e.ev = "decode")[1].val + 1])

\* C32: a stored in-flight state never has its completion flag set; a tick
\* without a CPU cycle leaves it alone; a CPU cycle steps the state in flight (or
\* the state created with cycle index 1 for the opcode it decodes) once, which
\* adds exactly 1 to the cycle index and keeps function and addressing mode, and
\* stores the result iff the step did not set the completion flag.
C32_InFlightState ==
  [][/\ cpu'.procedure # None => ~cpu'.procedure[1].done
     /\ ~CpuStepped(log') => cpu'.procedure = cpu.procedure
     /\ (CpuStepped(log') /\ ~fatal') =>
          /\ (cpu'.procedure = None) <=> Stepped.done
          /\ cpu'.procedure # None =>
               /\ cpu'.procedure[1] = Stepped
               /\ cpu'.procedure[1].cycle = StartedFrom.cycle + 1
               /\ cpu'.procedure[1].func = StartedFrom.func
               /\ cpu'.procedure[1].mode = StartedFrom.mode]_vars

\* JSR after its fourth cycle: the state created at decode is at index 5
C32_Witness ==
  /\ ~fatal
  /\ Cell(cart.rom, 0) = 32
  /\ tia.cycles.frame_cpu_counter = 4
  /\ cpu.procedure # None
  /\ cpu.procedure[1].func = "jsr"
  /\ cpu.procedure[1].mode = "Auto"
  /\ cpu.procedure[1].cycle = 5
  /\ ~cpu.procedure[1].done

----------------------------------------------------------------------------
(* The stack page                                                          *)

\* the accesses of the tick that the address decoder hands to the Cpu
StackAccesses(l) == SelectSeq(l, LAMBDA e : IsAccess(e) /\ e.owner = "cpu")

\* the step of this tick is a push of JSR (its cycles 4 and 5)
Pushes == CpuStepped(log') /\ InFlight({"jsr"}) /\ cpu.procedure[1].cycle \in {4, 5}

\* C33: the stack pointer is a byte; every access handed to the stack is at an
\* address of 0x0100..0x01FF; a push is one write, at 0x0100 + SP, that changes
\* the stack cell SP only and leaves the RAM and the ROM alone, and SP becomes
\* (SP - 1) mod 256, 0x00 wrapping to 0xFF; only a push or TXS changes SP, and
\* only a write of the stack page changes the stack.
C33_StackWrapsInPage ==
  [][/\ cpu'.sp \in 0..255
     /\ \A i \in DOMAIN StackAccesses(log') : StackAccesses(log')[i].addr \in 256..511
     /\ Pushes =>
          /\ AccessKinds(log') = << <<"write", 256 + cpu.sp>> >>
          /\ Accesses(log')[1].owner = "cpu"
          /\ ~fatal'
          /\ cpu'.sp = (cpu.sp + 255) % 256
          /\ cpu'.stack = Store(cpu.stack, cpu.sp, Accesses(log')[1].val)
          /\ pia'.ram = pia.ram
          /\ cart' = cart
     /\ cpu'.sp # cpu.sp => (Pushes \/ InFlight({"txs"}))
     /\ cpu'.stack # cpu.stack =>
          \E i \in DOMAIN StackAccesses(log') : StackAccesses(log')[i].ev = "write"]_vars

\* LDX #0; TXS; JSR $F010 after both pushes from SP = 0: the high byte is at
\* 0x0100, the low byte at 0x01FF and SP is 0xFE
C33_Witness ==
  /\ ~fatal
  /\ Cell(cart.rom, 0) = 162 /\ Cell(cart.rom, 1) = 0 /\ Cell(cart.rom, 2) = 154
  /\ Cell(cart.rom, 3) = 32
  /\ InFlight({"jsr"})
  /\ cpu.procedure[1].cycle = 6
  /\ cpu.sp = 254
  /\ DOMAIN cpu.stack = {0, 255}
  /\ cpu.stack[0] = 240
  /\ cpu.stack[255] = 5

----------------------------------------------------------------------------
(* Registers without an implementation                                     *)

\* the video registers whose writes Tia::write implements: VSYNC, VBLANK, WSYNC,
\* COLUPF, COLUBK, CTRLPF, PF0, PF1, PF2
ImplementedTiaWrites == {0, 1, 2, 8, 9, 10, 13, 14, 15}

\* the tick wrote a video register that has no implementation
UnimplementedTiaWrite(l) ==
  \E i \in DOMAIN l :
     l[i].ev = "write" /\ l[i].owner = "tia" /\ l[i].addr \notin ImplementedTiaWrites

\* C34: a write to an address of the video range 0x00..0x2C whose register is not
\* implemented aborts the run.
C34_UnimplementedAborts == [][UnimplementedTiaWrite(log') => fatal']_vars

----------------------------------------------------------------------------
(* The status register                                                     *)

\* C35: the reserved bit of the status register is set in every reachable state.
C35_ReservedBitSet == cpu.status \in 0..255 /\ contains(cpu.status, Unused)

\* SED complete: Decimal joined the reserved bit and Break of the power-on value
C35_Witness ==
  /\ ~fatal
  /\ Cell(cart.rom, 0) = 248
  /\ cpu.procedure = None
  /\ cpu.prefetch # None
  /\ cpu.status = BitOr(StatusDefault, Decimal)
  /\ contains(cpu.status, Unused)

----------------------------------------------------------------------------
(* The free-running color clock and divider                                *)

\* the counters agree with the oscillator tick count of the state
InStep(c) == c.color_clock = c.osc % 228 /\ c.div3 = c.osc % 3

\* C36: the color clock is the oscillator tick count mod 228 and the divider is
\* the count mod 3 in every state, a frame start included; a tick with a CPU or
\* timer cycle starts on a color clock divisible by 3 and does not leave the
\* color clock at 0; and a tick in which the CPU wrote WSYNC ends with the latch
\* set.
C36_ClocksFreeRun ==
  [][/\ InStep(tia.cycles) /\ InStep(tia'.cycles)
     /\ ~fatal' => tia'.cycles.osc = tia.cycles.osc + 1
     /\ (CpuStepped(log') \/ PiaCycled(log')) =>
          /\ tia.cycles.color_clock % 3 = 0
          /\ ~fatal' => tia'.cycles.color_clock # 0
     /\ (WroteWsync(log') /\ ~fatal') => tia'.wsync]_vars

\* a frame has started and, a scanline later, a CPU cycle ran on a tick that
\* began at color clock 225, the last one divisible by 3 before the wrap
C36_Witness ==
  /\ ~fatal
  /\ tia.cycles.frame_counter > 0
  /\ tia.cycles.osc > 228
  /\ tia.cycles.color_clock = 226
  /\ CpuStepped(log)

----------------------------------------------------------------------------
(* The phase counter of the timer                                          *)

\* the phase counter is within 1..interval and no re-arm is pending
PhaseInRange(p) == p.intim_counter \in 1..p.intim_interval /\ ~p.intim_trigger

\* C37: the timer after construction, and after every Pia::cycle call (the last
\* thing a tick does to the timer) following any sequence of interval-register
\* writes, value-register reads and cycles, has 1 <= phase counter <= interval
\* and no re-arm pending; a cycle that decrements the phase counter finds it at
\* 1 or more, and no cycle aborts.
C37_PhaseCounterInRange ==
  [][/\ obs.ops = 0 => PhaseInRange(pia)
     /\ PiaCycled(log') =>
          /\ ~fatal'
          /\ PhaseInRange(pia')
          /\ (~pia.intim_trigger /\ pia.intim_interval_active) => pia.intim_counter >= 1]_vars

\* a write of 0 to the 1-interval register, its arming cycle and the cycle that
\* takes the value from 0 to 0xFF: the interval is switched off and the phase
\* counter stands at 1
C37_Witness ==
  /\ ~fatal
  /\ obs.wseen
  /\ PiaCycled(log)
  /\ pia.intim = 255
  /\ pia.intim_interval = 1
  /\ ~pia.intim_interval_active
  /\ pia.intim_counter = 1
  /\ ~pia.intim_trigger

----------------------------------------------------------------------------
(* The stores                                                              *)

\* the register that the in-flight store writes
SourceReg ==
  CASE cpu.procedure[1].func = "sta" -> cpu.acc
    [] cpu.procedure[1].func = "stx" -> cpu.x
    [] cpu.procedure[1].func = "sty" -> cpu.y

\* the effective address of the in-flight store, from the operand bytes fetched
StoreAddr ==
  CASE cpu.procedure[1].mode = "Zero" -> cpu.procedure[1].tmp0
    [] cpu.procedure[1].mode = "Absolute" ->
         256 * cpu.procedure[1].tmp1 + cpu.procedure[1].tmp0
    [] cpu.procedure[1].mode = "ZeroX" -> (cpu.procedure[1].tmp0 + cpu.x) % 256
    [] cpu.procedure[1].mode = "ZeroY" -> (cpu.procedure[1].tmp0 + cpu.y) % 256

\* the tick leaves the registers, the flags and the prefetch slot as they were
RegistersKept ==
  /\ cpu'.acc = cpu.acc /\ cpu'.x = cpu.x /\ cpu'.y = cpu.y
  /\ cpu'.sp = cpu.sp /\ cpu'.status = cpu.status /\ cpu'.prefetch = cpu.prefetch

\* C38: STA, STX or STY in zero-page, absolute or indexed zero-page mode makes
\* no write before its last cycle; its last cycle makes one bus access, the write
\* of the source register to the effective address (a RAM cell takes that byte
\* and no other changes), and retires the instruction; no cycle of it changes
\* A, X, Y, SP, the flags or the prefetch slot.
C38_StoreWritesOnce ==
  [][(CpuStepped(log') /\ InFlight({"sta", "stx", "sty"})
        /\ cpu.procedure[1].mode \in {"Zero", "Absolute", "ZeroX", "ZeroY"}) =>
       /\ ~fatal' => RegistersKept
       /\ cpu.procedure[1].cycle # ModeCycles(cpu.procedure[1].mode) =>
            /\ SelectSeq(log', IsWrite) = << >>
            /\ ~fatal' => (cpu'.procedure # None /\ pia'.ram = pia.ram
                             /\ cpu'.stack = cpu.stack)
       /\ cpu.procedure[1].cycle = ModeCycles(cpu.procedure[1].mode) =>
            /\ AccessKinds(log') = << <<"write", StoreAddr>> >>
            /\ Accesses(log')[1].val = SourceReg
            /\ ~fatal' =>
                 /\ cpu'.procedure = None
                 /\ pia'.ram = IF StoreAddr \in 128..255
                                 THEN Store(pia.ram, StoreAddr - 128, SourceReg) ELSE pia.ram
                 /\ cpu'.stack = IF StoreAddr \in 256..511
                                   THEN Store(cpu.stack, StoreAddr - 256, SourceReg)
                                   ELSE cpu.stack]_vars

\* LDA #$11; LDX #$22; LDY #$33; STY $80,X complete: $33 is in RAM at 0xA2 and
\* the registers, the flags and the empty slot are as the loads left them
C38_Witness ==
  /\ ~fatal
  /\ Cell(cart.rom, 6) = 148 /\ Cell(cart.rom, 7) = 128
  /\ cpu.procedure = None
  /\ cpu.prefetch = None
  /\ tia.cycles.frame_cpu_counter = 10
  /\ pia.ram = Store(<< >>, 34, 51)
  /\ cpu.acc = 17 /\ cpu.x = 34 /\ cpu.y = 51 /\ cpu.sp = 0
  /\ cpu.status = StatusDefault
  /\ cpu.pc = 61448

----------------------------------------------------------------------------
(* Completion                                                              *)

\* While main is in its loop it goes on calling Tia::cycle: a tick that can be
\* taken is taken.  main leaves the loop when update_window reports Escape or
\* a closed window, or when it panics, and then no tick follows.  This is weak
\* fairness of Next, written with ENABLED <<Next>>_vars replaced by its value,
\* the guard of Tick (a tick always changes the tick count or aborts).
SpecLive ==
  /\ Init
  /\ [][Next]_vars
  /\ ([]<>(main # "loop" \/ fatal \/ tia.cycles.osc >= MaxOsc) \/ []<><<Next>>_vars)

\* C39: a stored in-flight state has a cycle index of 2..6, and, as long as the
\* clock goes on (main is in its loop, the run has neither aborted nor reached
\* the end of the ticks looked at), an instruction in flight is eventually
\* discarded.
C39_CompletesInSixCycles ==
  /\ [](cpu.procedure # None => cpu.procedure[1].cycle \in 2..6)
  /\ (cpu.procedure # None) ~>
       (cpu.procedure = None \/ main # "loop" \/ fatal \/ tia.cycles.osc = MaxOsc)

\* JSR $F005 complete after its sixth cycle
C39_Witness ==
  /\ ~fatal
  /\ Cell(cart.rom, 0) = 32 /\ Cell(cart.rom, 1) = 5 /\ Cell(cart.rom, 2) = 240
  /\ tia.cycles.frame_cpu_counter = 6
  /\ cpu.procedure = None
  /\ cpu.prefetch # None
  /\ cpu.pc = 61446

----------------------------------------------------------------------------
(* The prefetch slot                                                       *)

\* the byte that a bus read of address a returns in this state
BusReturns(a) == BusRead(Machine, a).data

\* the address before the program counter
BeforePc == (cpu.pc + 65535) % 65536

\* the last bus read of the tick
LastRead(l) == SelectSeq(l, LAMBDA e : e.ev = "read")[Len(SelectSeq(l, LAMBDA e : e.ev = "read"))]

\* the slot is occupied only between instructions
SlotBetweenInstructions == cpu.prefetch # None => cpu.procedure = None

\* a tick without a CPU cycle leaves slot and program counter alone; a CPU cycle
\* that leaves the slot occupied filled it with its last bus read, made one
\* before the program counter; the decode empties the slot, and an opcode taken
\* from the slot is the one decoded, without a bus access
SlotFilledAndEmptied ==
  /\ ~CpuStepped(log') => (cpu'.prefetch = cpu.prefetch /\ cpu'.pc = cpu.pc)
  /\ (CpuStepped(log') /\ ~fatal' /\ cpu'.prefetch # None) =>
       /\ cpu.prefetch = None
       /\ SelectSeq(log', LAMBDA e : e.ev = "read") # << >>
       /\ LastRead(log').val = cpu'.prefetch[1]
       /\ cpu'.pc = (LastRead(log').addr + 1) % 65536
  /\ (Decodes /\ ~fatal') => cpu'.prefetch = None
  /\ (Decodes /\ cpu.prefetch # None) =>
       /\ Accesses(log') = << >>
       /\ SelectSeq(log', LAMBDA e : e.ev = "decode") =
            <<[ev |-> "decode", addr |-> 0, val |-> cpu.prefetch[1], owner |-> "cpu"]>>

\* C40 as stated: the slot is occupied only between instructions, an occupied
\* slot holds the byte that the bus returns at PC - 1 in the same state, with the
\* program counter one past the fetch, and the decode empties the slot.
C40_SlotHoldsBusByte ==
  [][/\ SlotBetweenInstructions'
     /\ (cpu.prefetch # None => cpu.prefetch[1] = BusReturns(BeforePc))'
     /\ SlotFilledAndEmptied]_vars

\* C40 amended: the slot is occupied only between instructions, an occupied slot
\* holds the byte that the bus returned at PC - 1 when it was fetched, which is
\* the byte the bus returns there in the same state unless PC - 1 is the timer
\* value register 0x0284 (the timer cycle of the fetching tick may have
\* decremented it since), and the decode empties the slot.
C40_SlotHoldsFetchedByte ==
  [][/\ SlotBetweenInstructions'
     /\ ((cpu.prefetch # None /\ BeforePc # 644) => cpu.prefetch[1] = BusReturns(BeforePc))'
     /\ SlotFilledAndEmptied]_vars

\* LDA #0; STA TIM1T; JMP $0284 complete: the slot holds the 0xFE that the timer
\* returned to the fetch, and the timer cycle of that tick left 0xFD
C40_Witness ==
  /\ ~fatal
  /\ Cell(cart.rom, 5) = 76 /\ Cell(cart.rom, 6) = 132 /\ Cell(cart.rom, 7) = 2
  /\ cpu.procedure = None
  /\ cpu.prefetch = Some(254)
  /\ cpu.pc = 645
  /\ pia.intim = 253
  /\ BusReturns(BeforePc) = 253

=============================================================================
